---- MODULE Spec2Model ----
(***************************************************************************)
(* Model of the LaunchDarkly project migrator:                             *)
(*   - the rate limiter of src/utils/utils.ts (rateLimitRequest and its    *)
(*     helpers), with a clock in milliseconds;                             *)
(*   - the migration script migrate_between_ld_instances.ts, one action    *)
(*     per continuation between two awaited requests.                      *)
(***************************************************************************)
EXTENDS Integers, Sequences, FiniteSets, TLC

VARIABLES
    \* ---- rate limiter (utils.ts) ----
    now,             \* Date.now(), epoch ms
    rateLimitState,  \* Map<routeCategory, RateLimitState>; absent key = not in DOMAIN
    rlPc,            \* position inside rateLimitRequest
    rlReq,           \* the Request the caller passed in
    rlCat,           \* routeCategory argument
    rlClone,         \* rateLimitReq, the clone taken before fetch()
    rlSent,          \* the Request handed to the last fetch()
    rlRes,           \* the last Response received
    rlResAt,         \* time the last Response was received
    rlWake,          \* expiry of the delay() in progress
    rlRetries,       \* number of recursive calls made after a 429 in this call
    rlSends,         \* number of fetch() made in this call
    rlCalls,         \* number of top-level calls made
    lastZero,        \* per category: reset time T of the last response that
                     \* reported remaining = 0 with T later than its arrival, else 0
    always429,       \* the server answers every request with 429
    firstNon429,     \* first non-429 response of this call (NoResponse while none)
    rejections,      \* number of 429 answers the server has given
    \* ---- migration script: configuration and source data ----
    conflictPrefix,  \* inputArgs.conflictPrefix, "" when none is configured
    dryRun,          \* inputArgs.dryRun
    srcCfg,          \* environment configuration of the source flags
    environments,    \* inputArgs.environments as a set of keys, {} when not given
    envMapping,      \* envMapping: source key -> destination key, empty when not given
    targetView,      \* inputArgs.targetView, 0 when not given
    assignMaintainerIds, \* inputArgs.assignMaintainerIds
    maintainerMapped,    \* flag.maintainerId && maintainerMapping[flag.maintainerId]
    \* ---- migration script: program state ----
    pc,              \* the awaited request, or "start", "done", "exited"
    req,             \* the request being awaited
    exitCode,        \* process exit code
    runNo,           \* number of the current pass of the script
    currentMemberId, \* id of the authenticated member, "none" for null
    envkeys,         \* environments selected for migration
    viewIdx,         \* position in allViewKeys
    segEnvIdx,       \* position in envsToMigrate
    segIdx,          \* position in segmentData.items
    segmentKey,
    attemptCount,
    flagIdx,         \* position in flagList
    flagKey,
    flagAlreadyExisted,
    createdFlagKey,
    destinationFlag,
    envIdx,          \* position in envkeys of the environment being patched
    retryCount,
    flagMaintainerId, \* "none" for null
    resolutions,     \* conflictTracker.resolutions
    flagsWithErrors,
    approvalRequestsCreated,
    \* ---- destination instance ----
    faults,          \* the destination may depart from its state in its answers
    deviations,      \* number of answers that departed from the destination's state
    dest,            \* project, environments, views, segments, flags, approvals
    \* ---- observations of the run ----
    known,           \* keys the destination has reported to exist in this run
    createKeys,      \* the creation POSTs dispatched for the current resource
    resCount,        \* ConflictResolution entries recorded for the current resource
    lastRes,         \* kind and status of the last response the script received
    prevStatus,      \* status message of the previous pass, "none" in the first
    patchLog,        \* answers (429 apart) to the PATCHes of the last flag environment
    failures,        \* resources an operation of this pass ended on a failure status for
    approvalEvents,  \* what this pass saw of the approval workflow of each flag environment
    \* ---- semantic patch conversion on its own ----
    convIn,          \* arguments of convertToSemanticPatch
    convOut,         \* its ConversionResult
    \* ---- ConflictTracker on its own ----
    ctSeen,          \* per query method, the values returned since the last addResolution
    ctHeld,          \* the array the caller got from getResolutions()
    \* ---- workflow orchestrator on its own ----
    wfConfig,        \* the WorkflowConfig loaded from the YAML file
    wfPc,            \* "idle", "main", "command", "completed" or "exited"
    wfIdx,           \* position in steps of the step being executed
    wfExit,          \* exit code of the workflow process
    wfStarted,       \* the steps whose command was started, in order
    wfCodes          \* the exit codes of the commands that ended, in order

rlVars == <<now, rateLimitState, rlPc, rlReq, rlCat, rlClone, rlSent, rlRes,
            rlResAt, rlWake, rlRetries, rlSends, rlCalls, lastZero,
            always429, firstNon429>>

cfgVars == <<conflictPrefix, dryRun, srcCfg, environments, envMapping, targetView,
             assignMaintainerIds,
             maintainerMapped, faults>>
segVars == <<segEnvIdx, segIdx, segmentKey>>
flagVars == <<flagIdx, flagKey, flagAlreadyExisted, createdFlagKey, destinationFlag,
              envIdx, retryCount, flagMaintainerId>>
outVars == <<resolutions, flagsWithErrors, approvalRequestsCreated>>
obsVars == <<known, createKeys, resCount, lastRes, prevStatus, patchLog, failures,
             approvalEvents>>
ctVars == <<ctSeen, ctHeld>>
wfVars == <<wfConfig, wfPc, wfIdx, wfExit, wfStarted, wfCodes>>
convVars == <<convIn, convOut, ctVars, wfVars>>
mVars == <<cfgVars, pc, req, exitCode, runNo, currentMemberId, envkeys, viewIdx,
           segVars, attemptCount, flagVars, outVars, dest, deviations, obsVars,
           convVars>>

vars == <<rlVars, rejections, mVars>>

\* ------------------------------------------------------------------------
\* Bounds of the model
\* ------------------------------------------------------------------------
MaxRejections == 1      \* 429 answers the server gives in one behaviour (unless always429)
MaxCalls == 2           \* top-level rateLimitRequest calls in one behaviour
MaxTime == 2000         \* a server in always429 mode stops answering after this time
NumFlags == 1           \* flags in the source flag list
NumEnvs == 2            \* environments of the source project
NumSegments == 1        \* segments per source environment
NumViews == 1           \* view keys collected from the source flags
MaxRuns == 2            \* passes of the script over the same destination
MaxFaults == 2          \* answers by which a destination departs from its state
MaxVariations == 2      \* variations of a flag handed to the conversion
MaxPatches == 2         \* patch operations handed to the conversion
MaxResolutions == 3     \* addResolution calls made on a tracker explored on its own
MaxSteps == 3           \* steps listed in workflow.steps

\* ------------------------------------------------------------------------
\* Small helpers
\* ------------------------------------------------------------------------
Max2(a, b) == IF a >= b THEN a ELSE b
Min2(a, b) == IF a <= b THEN a ELSE b
Max3(a, b, c) == Max2(a, Max2(b, c))
\* Math.ceil(a / b) for a >= 0, b > 0
CeilDiv(a, b) == (a + b - 1) \div b

NoHeaders == [h \in {} |-> 0]

\* ------------------------------------------------------------------------
\* utils.ts : rate limiter
\* ------------------------------------------------------------------------
PROACTIVE_THRESHOLD == 3
MIN_REQUEST_SPACING == 50

RouteCategories == {"projects", "flags"}

\* Math.floor(Math.random() * 100) ranges over 0..99; the extremes are explored.
JitterValues == {0, 99}
\* setTimeout fires at or after the requested time.
TimerLags == {0}
\* time spent by the caller between two calls
CallGaps == {0, 2500}
\* network round trip
Latencies == {10}

\* Calls a caller may make: the request and its route category.
Calls == {[req |-> [method |-> "GET", url |-> "flags/p/f", body |-> "none"],
           cat |-> "flags"],
          [req |-> [method |-> "POST", url |-> "projects", body |-> "projPost"],
           cat |-> "projects"]}
NoRequest == [method |-> "none", url |-> "none", body |-> "none"]

\* Request.clone()
Clone(request) ==
    [method |-> request.method, url |-> request.url, body |-> request.body]

\* Responses the server may give at time t: a status and rate-limit headers.
FetchResponse(status, headers) == [status |-> status, headers |-> headers]
Responses(t) ==
    { FetchResponse(200, NoHeaders),
      FetchResponse(200, ("x-ratelimit-route-remaining" :> 0) @@ ("x-ratelimit-reset" :> (t + 300))),
      FetchResponse(200, ("x-ratelimit-remaining" :> 2) @@ ("x-ratelimit-reset" :> (t + 300))),
      FetchResponse(200, ("x-ratelimit-route-remaining" :> 0) @@ ("x-ratelimit-reset" :> (t - 40))),
      FetchResponse(409, NoHeaders),
      FetchResponse(429, NoHeaders),
      FetchResponse(429, ("x-ratelimit-global-remaining" :> 0) @@ ("retry-after" :> 2)),
      FetchResponse(429, ("x-ratelimit-route-remaining" :> 0) @@ ("x-ratelimit-reset" :> (t + 1500))),
      FetchResponse(429, ("x-ratelimit-global-remaining" :> 100)
                         @@ ("x-ratelimit-route-remaining" :> 50) @@ ("retry-after" :> 2)) }
NoResponse == [status |-> 0, headers |-> NoHeaders]

Has(headers, name) == name \in DOMAIN headers

\* extractRateLimitHeaders(response), evaluated at time t
extractRateLimitHeaders(response, t) ==
    LET h == response.headers
        g == IF Has(h, "x-ratelimit-global-remaining")
             THEN ("globalRemaining" :> h["x-ratelimit-global-remaining"])
             ELSE NoHeaders
        r == IF Has(h, "x-ratelimit-route-remaining")
             THEN ("routeRemaining" :> h["x-ratelimit-route-remaining"])
             ELSE IF Has(h, "x-ratelimit-remaining")
                  THEN ("routeRemaining" :> h["x-ratelimit-remaining"])
                  ELSE NoHeaders
        s == IF Has(h, "x-ratelimit-reset")
             THEN ("resetTime" :> h["x-ratelimit-reset"])
             ELSE IF Has(h, "retry-after")
                  THEN ("resetTime" :> (t + h["retry-after"] * 1000))
                  ELSE NoHeaders
    IN  g @@ r @@ s @@ ("lastUpdated" :> t)

DefaultRateLimitState ==
    [globalRemaining |-> 100, routeRemaining |-> 100, resetTime |-> 0, lastUpdated |-> 0]

\* C23 mutant: the stored state is not kept, every update starts from the
\* default values
updateRateLimitState_FromDefault(state, routeCategory, response, t) ==
    LET extracted == extractRateLimitHeaders(response, t)
        merged == extracted @@ DefaultRateLimitState
    IN  (routeCategory :> merged) @@ state

\* updateRateLimitState(routeCategory, response): the new value of the map
updateRateLimitState(state, routeCategory, response, t) ==
    LET extracted == extractRateLimitHeaders(response, t)
        existing == IF routeCategory \in DOMAIN state
                    THEN state[routeCategory] ELSE DefaultRateLimitState
        merged == extracted @@ existing
    IN  (routeCategory :> merged) @@ state

\* C7 mutant: calculateProactiveDelay that does not wait for the reset when
\* nothing remains
calculateProactiveDelay_NoWaitAtZero(state, routeCategory, t, jitter) ==
    IF routeCategory \notin DOMAIN state THEN MIN_REQUEST_SPACING
    ELSE LET st == state[routeCategory]
             remaining == Min2(st.globalRemaining, st.routeRemaining)
         IN  IF remaining > PROACTIVE_THRESHOLD THEN MIN_REQUEST_SPACING
             ELSE IF st.resetTime > t
                  THEN LET timeUntilReset == st.resetTime - t
                           delayPerRequest == IF remaining > 0
                                              THEN CeilDiv(timeUntilReset, remaining)
                                              ELSE 0
                       IN  Max2(delayPerRequest + jitter, MIN_REQUEST_SPACING)
                  ELSE MIN_REQUEST_SPACING

\* C24 mutant: calculateProactiveDelay that looks at routeRemaining only
calculateProactiveDelay_RouteOnly(state, routeCategory, t, jitter) ==
    IF routeCategory \notin DOMAIN state THEN MIN_REQUEST_SPACING
    ELSE LET st == state[routeCategory]
             remaining == st.routeRemaining
         IN  IF remaining > PROACTIVE_THRESHOLD THEN MIN_REQUEST_SPACING
             ELSE IF st.resetTime > t
                  THEN LET timeUntilReset == st.resetTime - t
                           delayPerRequest == IF remaining > 0
                                              THEN CeilDiv(timeUntilReset, remaining)
                                              ELSE timeUntilReset
                       IN  Max2(delayPerRequest + jitter, MIN_REQUEST_SPACING)
                  ELSE MIN_REQUEST_SPACING

\* C33 mutant: no minimum spacing while no state is stored for the category
calculateProactiveDelay_NoSpacing(state, routeCategory, t, jitter) ==
    IF routeCategory \notin DOMAIN state THEN 0
    ELSE LET st == state[routeCategory]
             remaining == Min2(st.globalRemaining, st.routeRemaining)
         IN  IF remaining > PROACTIVE_THRESHOLD THEN MIN_REQUEST_SPACING
             ELSE IF st.resetTime > t
                  THEN LET timeUntilReset == st.resetTime - t
                           delayPerRequest == IF remaining > 0
                                              THEN CeilDiv(timeUntilReset, remaining)
                                              ELSE timeUntilReset
                       IN  Max2(delayPerRequest + jitter, MIN_REQUEST_SPACING)
                  ELSE MIN_REQUEST_SPACING

\* calculateProactiveDelay(routeCategory) with the drawn jitter, at time t
calculateProactiveDelay(state, routeCategory, t, jitter) ==
    IF routeCategory \notin DOMAIN state THEN MIN_REQUEST_SPACING
    ELSE LET st == state[routeCategory]
             remaining == Min2(st.globalRemaining, st.routeRemaining)
         IN  IF remaining > PROACTIVE_THRESHOLD THEN MIN_REQUEST_SPACING
             ELSE IF st.resetTime > t
                  THEN LET timeUntilReset == st.resetTime - t
                           delayPerRequest == IF remaining > 0
                                              THEN CeilDiv(timeUntilReset, remaining)
                                              ELSE timeUntilReset
                       IN  Max2(delayPerRequest + jitter, MIN_REQUEST_SPACING)
                  ELSE MIN_REQUEST_SPACING

\* C8 mutant: calculateRateLimitDelay without the floor of one second
calculateRateLimitDelay_NoFloor(response, t, jitter) ==
    LET h == response.headers
        retryAfter == IF Has(h, "retry-after") THEN h["retry-after"] * 1000 ELSE 0
        rateLimitReset == IF Has(h, "x-ratelimit-reset")
                          THEN h["x-ratelimit-reset"] - t ELSE 0
        delayMs == Max2(retryAfter, rateLimitReset)
    IN  delayMs + jitter

\* calculateRateLimitDelay(response) with the drawn jitter, at time t
calculateRateLimitDelay(response, t, jitter) ==
    LET h == response.headers
        retryAfter == IF Has(h, "retry-after") THEN h["retry-after"] * 1000 ELSE 0
        rateLimitReset == IF Has(h, "x-ratelimit-reset")
                          THEN h["x-ratelimit-reset"] - t ELSE 0
        delayMs == Max3(retryAfter, rateLimitReset, 1000)
    IN  delayMs + jitter

\* What the response itself reports, independently of the stored state: the
\* remaining counts it carries and the reset time it announces.
ReportedRemaining(h) ==
    (IF Has(h, "x-ratelimit-global-remaining")
     THEN {h["x-ratelimit-global-remaining"]} ELSE {})
    \cup
    (IF Has(h, "x-ratelimit-route-remaining") THEN {h["x-ratelimit-route-remaining"]}
     ELSE IF Has(h, "x-ratelimit-remaining") THEN {h["x-ratelimit-remaining"]} ELSE {})
ReportedReset(h, t) ==
    IF Has(h, "x-ratelimit-reset") THEN h["x-ratelimit-reset"]
    ELSE IF Has(h, "retry-after") THEN t + h["retry-after"] * 1000 ELSE 0
ZeroUntil(h, t) ==
    IF 0 \in ReportedRemaining(h) /\ ReportedReset(h, t) > t
    THEN ReportedReset(h, t) ELSE 0

\* C9 mutant: every 409 ends the process, whatever the route category
AfterResponse_ExitOnAny409(status, routeCategory) ==
    IF status = 409 THEN "exited"
    ELSE IF status = 429 THEN "backoff"
    ELSE "returned"

\* C11 mutant: a server error ends the process as well
AfterResponse_ExitOnServerError(status, routeCategory) ==
    IF (status = 409 /\ routeCategory = "projects") \/ status >= 500 THEN "exited"
    ELSE IF status = 429 THEN "backoff"
    ELSE "returned"

\* C10 mutant: a 409 on 'projects' is returned to the caller like any other
AfterResponse_NoExit(status, routeCategory) ==
    IF status = 429 THEN "backoff" ELSE "returned"

\* The branches of rateLimitRequest after the response (utils.ts 188-205):
\* Deno.exit(1), the 429 wait and recursive call, or return res.
AfterResponse(status, routeCategory) ==
    IF status = 409 /\ routeCategory = "projects" THEN "exited"
    ELSE IF status = 429 THEN "backoff"
    ELSE "returned"

RLStart ==
    /\ now = 0
    /\ rateLimitState = NoHeaders
    /\ rlPc = "idle"
    /\ rlReq = NoRequest
    /\ rlCat = "none"
    /\ rlClone = NoRequest
    /\ rlSent = NoRequest
    /\ rlRes = NoResponse
    /\ rlResAt = 0
    /\ rlWake = 0
    /\ rlRetries = 0
    /\ rlSends = 0
    /\ rlCalls = 0
    /\ lastZero = [c \in RouteCategories |-> 0]
    /\ always429 \in BOOLEAN
    /\ firstNon429 = NoResponse

\* rateLimitRequest, entry up to `await delay(proactiveDelay)` (utils.ts 174-180)
RLEnter(request, routeCategory, t, jitter) ==
    /\ rlReq' = request
    /\ rlCat' = routeCategory
    /\ rlWake' = t + calculateProactiveDelay(rateLimitState, routeCategory, t, jitter)
    /\ rlPc' = "waiting"

\* a caller invokes rateLimitRequest(req, routeCategory)
RLCall ==
    /\ rlPc \in {"idle", "returned"}
    /\ rlCalls < MaxCalls
    /\ \E c \in Calls, gap \in (IF rlCalls = 0 THEN {0} ELSE CallGaps),
          j \in JitterValues :
          /\ now' = now + gap
          /\ RLEnter(c.req, c.cat, now + gap, j)
    /\ rlCalls' = rlCalls + 1
    /\ rlRetries' = 0
    /\ rlSends' = 0
    /\ firstNon429' = NoResponse
    /\ UNCHANGED <<rateLimitState, rlClone, rlSent, rlRes, rlResAt,
                   lastZero, always429, rejections>>
    /\ UNCHANGED mVars

\* the proactive delay expires: const rateLimitReq = req.clone(); fetch(req)
RLFetch ==
    /\ rlPc = "waiting"
    /\ \E lag \in TimerLags : now' = rlWake + lag
    /\ rlClone' = Clone(rlReq)
    /\ rlSent' = rlReq
    /\ rlSends' = rlSends + 1
    /\ rlPc' = "inflight"
    /\ UNCHANGED <<rateLimitState, rlReq, rlCat, rlRes, rlResAt, rlWake, rlRetries,
                   rlCalls, lastZero, always429, rejections, firstNon429>>
    /\ UNCHANGED mVars

\* statuses the server may answer with
ServerMayAnswer(status) ==
    IF always429 THEN status = 429 /\ now <= MaxTime
    ELSE status = 429 => rejections < MaxRejections

\* the response arrives: updateRateLimitState, then the 409 and 429 branches
\* (utils.ts 183-205)
RLRespond ==
    /\ rlPc = "inflight"
    /\ \E lat \in Latencies, j \in JitterValues :
        \E res \in Responses(now + lat) :
          LET t == now + lat
              status == res.status
              h == res.headers
          IN  /\ ServerMayAnswer(status)
              /\ now' = t
              /\ rlRes' = res
              /\ rlResAt' = t
              /\ rateLimitState' = updateRateLimitState(rateLimitState, rlCat, res, t)
              /\ lastZero' = [lastZero EXCEPT ![rlCat] = ZeroUntil(h, t)]
              /\ firstNon429' = IF status # 429 /\ firstNon429 = NoResponse
                                 THEN res ELSE firstNon429
              /\ rejections' = IF status = 429 THEN rejections + 1 ELSE rejections
              /\ rlPc' = AfterResponse(status, rlCat)
              /\ rlWake' = IF AfterResponse(status, rlCat) = "backoff"
                            THEN t + calculateRateLimitDelay(res, t, j)
                            ELSE rlWake
    /\ UNCHANGED <<rlReq, rlCat, rlClone, rlSent, rlRetries, rlSends,
                   rlCalls, always429>>
    /\ UNCHANGED mVars

\* the 429 wait expires: return rateLimitRequest(rateLimitReq, routeCategory)
RLRetry ==
    /\ rlPc = "backoff"
    /\ \E j \in JitterValues :
          /\ now' = rlWake
          /\ RLEnter(rlClone, rlCat, rlWake, j)
    /\ rlRetries' = rlRetries + 1
    /\ UNCHANGED <<rateLimitState, rlClone, rlSent, rlRes, rlResAt,
                   rlSends, rlCalls, lastZero, always429, rejections, firstNon429>>
    /\ UNCHANGED mVars

\* ------------------------------------------------------------------------
\* migrate_between_ld_instances.ts : configuration and source data
\* ------------------------------------------------------------------------
Range(s) == {s[i] : i \in 1..Len(s)}

\* The prefix an operator may configure; "" stands for no prefix.
ConflictPrefixes == {"", "imported-"}

\* A resource key is the source key `base` with the prefixes `pre` in front.
Key(base) == [pre |-> <<>>, base |-> base]
NoKey == [pre |-> <<>>, base |-> 0]

\* C25 mutant: the prefix is put in front twice
applyConflictPrefix_Twice(originalKey, prefix) ==
    [pre |-> <<prefix, prefix>> \o originalKey.pre, base |-> originalKey.base]

\* applyConflictPrefix(originalKey, prefix) == `${prefix}${originalKey}`
applyConflictPrefix(originalKey, prefix) ==
    [pre |-> <<prefix>> \o originalKey.pre, base |-> originalKey.base]

\* flags.json, projectJson.environments.items, segmentData.items, allViewKeys
flagList == [i \in 1..NumFlags |-> i]
projectEnvs == [i \in 1..NumEnvs |-> i]
segmentItems == [i \in 1..NumSegments |-> i]
\* flag.viewKeys of the source flags, and no target view
flagViewKeys == [i \in 1..NumViews |-> i]
NoView == 0

\* envMapping when --env-map is not given, and a mapping that gives every
\* source environment another key in the destination
NoEnvMapping == [e \in {} |-> 0]
RenamingMap == [e \in {projectEnvs[i] : i \in 1..NumEnvs} |-> NumEnvs + e]

\* The environment configuration of a flag the destination has just created.
DefaultEnvCfg ==
    [on |-> FALSE, offVariation |-> 1, fallthrough |-> 0, rules |-> <<>>,
     trackEvents |-> FALSE]
SourceRule == [clauses |-> "c1", variation |-> 0, _id |-> "r1"]
\* Source configurations: differing from the default in `on`, in `on` and a
\* rule, and in `trackEvents` only.
SrcCfgs ==
    { [DefaultEnvCfg EXCEPT !.on = TRUE],
      [DefaultEnvCfg EXCEPT !.on = TRUE, !.rules = <<SourceRule>>],
      [DefaultEnvCfg EXCEPT !.trackEvents = TRUE] }
\* Environment data of a source flag that holds no key with an instruction
\* equivalent.
SparseCfg == [trackEvents |-> TRUE]

\* buildPatch(key, op, value); the path is kept as path.split('/')
buildPatch(key, op, value) == [path |-> <<"">> \o key, op |-> op, value |-> value]

\* buildRules(rules, env): one "add" on {env}/rules/- per rule, ids stripped
buildRules(rules, env) ==
    [i \in 1..Len(rules) |->
        buildPatch(env \o <<"rules", "-">>, "add",
                   [clauses |-> rules[i].clauses, variation |-> rules[i].variation])]

\* Object.keys(parsedData), in the order of the source document
ParsedKeys == <<"on", "offVariation", "fallthrough", "rules", "trackEvents">>

\* the patch list built for one environment (script lines 1395-1426)
PatchesOfKey(flagEnvData, destEnvKey, key) ==
    IF key \notin DOMAIN flagEnvData THEN <<>>
    ELSE IF key = "rules"
    THEN buildRules(flagEnvData.rules, <<"environments", destEnvKey>>)
    ELSE <<buildPatch(<<"environments", destEnvKey, key>>, "replace", flagEnvData[key])>>
BuildPatchReq(flagEnvData, destEnvKey) ==
    PatchesOfKey(flagEnvData, destEnvKey, ParsedKeys[1])
    \o PatchesOfKey(flagEnvData, destEnvKey, ParsedKeys[2])
    \o PatchesOfKey(flagEnvData, destEnvKey, ParsedKeys[3])
    \o PatchesOfKey(flagEnvData, destEnvKey, ParsedKeys[4])
    \o PatchesOfKey(flagEnvData, destEnvKey, ParsedKeys[5])

\* JSON.stringify: the text of an array never equals the text of an object
Json(kind, value) == <<kind, value>>
JsonEqual(a, b) == a[1] = b[1] /\ a[2] = b[2]

NoEnvConfig == [present |-> FALSE]
EnvConfig(cfg) == [present |-> TRUE, cfg |-> cfg]

\* one iteration of the loop of wouldPatchChangeEnvironment: TRUE when it returns true
PatchOpChanges(cfg, patch) ==
    LET field == patch.path[4]      \* pathParts[3]
    IN  IF patch.op = "replace"
        THEN IF field \in {"offVariation", "on"}
             THEN cfg[field] # patch.value
             ELSE IF field = "fallthrough"
                  THEN ~JsonEqual(Json("number", cfg[field]), Json("number", patch.value))
                  ELSE FALSE
        ELSE IF patch.op = "add"
             THEN IF field = "rules"
                  THEN ~JsonEqual(Json("array", cfg.rules), Json("object", patch.value))
                  ELSE TRUE
             ELSE TRUE

\* wouldPatchChangeEnvironment(currentEnvConfig, patchOperations, variations)
wouldPatchChangeEnvironment(currentEnvConfig, patchOperations) ==
    IF ~currentEnvConfig.present THEN TRUE
    ELSE \E i \in 1..Len(patchOperations) :
            PatchOpChanges(currentEnvConfig.cfg, patchOperations[i])

\* number of instructions convertToSemanticPatch produces for a patch list
\* whose variation indices all resolve
SupportedFields == {"on", "offVariation", "fallthrough", "rules"}
InstructionCount(patchOperations) ==
    Cardinality({i \in 1..Len(patchOperations) :
                    patchOperations[i].path[4] \in SupportedFields})

\* isActiveApprovalRequest(request)
isActiveApprovalRequest(request) == request.status \in {"pending", "scheduled", "failed"}

\* ------------------------------------------------------------------------
\* migrate_between_ld_instances.ts : semantic patch conversion
\* ------------------------------------------------------------------------
\* A variation reference is a pair: the _id of a variation, a raw index, or
\* undefined.
VariationId(n) == <<"_id", n>>
RawIndex(i) == <<"index", i>>
Undefined == <<"undefined", 0>>

\* `value.variation` when the value has no such property
Absent == -1
NoRollout == [present |-> FALSE, variations |-> <<>>]
Rollout(weighted) == [present |-> TRUE, variations |-> weighted]

\* the value of a patch operation: a boolean (on, trackEvents), a number
\* (offVariation), or an object with a variation or a rollout
PatchValue(bool, num, variation, rollout) ==
    [bool |-> bool, num |-> num, variation |-> variation, rollout |-> rollout]

\* createVariationMapper(variations): (index) => variations[index]?._id
createVariationMapper(variations, index) ==
    IF index + 1 \in DOMAIN variations THEN variations[index + 1]._id ELSE Undefined

\* extractFieldFromPath(path); "null" when the path has no environment field
extractFieldFromPath(path) ==
    LET found == {i \in DOMAIN path : path[i] = "environments"}
    IN  IF found = {} THEN "null"
        ELSE LET envIndex == CHOOSE i \in found : \A j \in found : i <= j
             IN  IF envIndex + 2 \in DOMAIN path THEN path[envIndex + 2] ELSE "null"

\* convertRolloutVariations(rollout, getVariationId)
convertRolloutVariations(rollout, variations) ==
    Rollout([i \in DOMAIN rollout.variations |->
                LET v == rollout.variations[i]
                    id == createVariationMapper(variations, v.variation)
                IN  [v EXCEPT !.variation =
                        IF id # Undefined THEN id ELSE RawIndex(v.variation)]])

NullInstruction == [kind |-> "null", variationId |-> Undefined, rollout |-> NoRollout]
SemanticInstruction(kind, variationId, rollout) ==
    [kind |-> kind, variationId |-> variationId, rollout |-> rollout]

\* convertOnOffInstruction(value)
convertOnOffInstruction(value) ==
    SemanticInstruction(IF value.bool THEN "turnFlagOn" ELSE "turnFlagOff",
                        Undefined, NoRollout)

\* convertOffVariationInstruction(value, getVariationId)
convertOffVariationInstruction(value, variations) ==
    LET variationId == createVariationMapper(variations, value.num)
    IN  IF variationId # Undefined
        THEN SemanticInstruction("updateOffVariation", variationId, NoRollout)
        ELSE NullInstruction

\* the variationId and rollout properties set on an instruction from a value
\* with a variation or a rollout (script lines 709-716 and 738-745)
VariationOrRollout(kind, value, variations) ==
    IF value.variation # Absent
    THEN SemanticInstruction(kind, createVariationMapper(variations, value.variation),
                             NoRollout)
    ELSE IF value.rollout.present
    THEN SemanticInstruction(kind, Undefined,
                             convertRolloutVariations(value.rollout, variations))
    ELSE SemanticInstruction(kind, Undefined, NoRollout)

\* convertFallthroughInstruction(value, getVariationId)
convertFallthroughInstruction(value, variations) ==
    LET instruction ==
            VariationOrRollout("updateFallthroughVariationOrRollout", value, variations)
    IN  IF instruction.variationId # Undefined \/ instruction.rollout.present
        THEN instruction ELSE NullInstruction

\* patch.path.includes('rules/-')
IncludesRulesDash(path) ==
    \E i \in DOMAIN path : i + 1 \in DOMAIN path /\ path[i] = "rules" /\ path[i + 1] = "-"

\* convertRuleInstruction(patch, getVariationId)
convertRuleInstruction(patch, variations) ==
    IF patch.op # "add" \/ ~IncludesRulesDash(patch.path) THEN NullInstruction
    ELSE VariationOrRollout("addRule", patch.value, variations)

\* convertPatchToSemanticInstruction(patch, getVariationId)
convertPatchToSemanticInstruction(patch, variations) ==
    LET field == extractFieldFromPath(patch.path)
        Result(instruction, shouldSkip) ==
            [instruction |-> instruction, shouldSkip |-> shouldSkip]
    IN  CASE field = "null" -> Result(NullInstruction, FALSE)
          [] field = "on" -> Result(convertOnOffInstruction(patch.value), FALSE)
          [] field = "offVariation" ->
                Result(convertOffVariationInstruction(patch.value, variations), FALSE)
          [] field = "fallthrough" ->
                Result(convertFallthroughInstruction(patch.value, variations), FALSE)
          [] field = "rules" -> Result(convertRuleInstruction(patch, variations), FALSE)
          [] field = "trackEvents" -> Result(NullInstruction, TRUE)
          [] OTHER -> Result(NullInstruction, TRUE)

\* C13 mutant: skipped fields are not collected
AddOnce_Never(fields, field) == fields

\* Set.add followed by Array.from: insertion order, no duplicates
AddOnce(fields, field) ==
    IF \E i \in DOMAIN fields : fields[i] = field THEN fields ELSE Append(fields, field)

RECURSIVE ReducePatches(_, _, _, _)
\* jsonPatches.reduce from index i on, with the accumulator acc and the
\* skippedFields collected so far
ReducePatches(jsonPatches, variations, i, result) ==
    IF i > Len(jsonPatches) THEN result
    ELSE LET patch == jsonPatches[i]
             r == convertPatchToSemanticInstruction(patch, variations)
             field == extractFieldFromPath(patch.path)
             skipped == IF r.shouldSkip /\ field # "null"
                        THEN AddOnce(result.skippedFields, field)
                        ELSE result.skippedFields
             acc == IF r.instruction # NullInstruction
                    THEN Append(result.instructions, r.instruction)
                    ELSE result.instructions
         IN  ReducePatches(jsonPatches, variations, i + 1,
                           [instructions |-> acc, skippedFields |-> skipped])

\* convertToSemanticPatch(jsonPatches, envKey, variations)
convertToSemanticPatch(jsonPatches, variations) ==
    ReducePatches(jsonPatches, variations, 1,
                  [instructions |-> <<>>, skippedFields |-> <<>>])

\* flag.variations of a source flag, with the identifiers of the source, and
\* the variations of a destination flag, with those the destination assigned
SourceId(n) == <<"source _id", n>>
SourceVariations == [i \in 1..2 |-> [_id |-> SourceId(i)]]
DestinationVariations == [i \in 1..2 |-> [_id |-> VariationId(i)]]

\* the variation identifiers of the instructions convertToSemanticPatch builds
\* for the patch list of a flag environment (updateOffVariation,
\* updateFallthroughVariationOrRollout, addRule)
InstructionVariationIds(patchOperations, variations) ==
    {createVariationMapper(variations,
                           IF patchOperations[i].path[4] = "rules"
                           THEN patchOperations[i].value.variation
                           ELSE patchOperations[i].value) :
        i \in {k \in DOMAIN patchOperations :
                  patchOperations[k].path[4] \in {"offVariation", "fallthrough", "rules"}}}
    \ {Undefined}

\* the skippedFields convertToSemanticPatch collects for that patch list
SkippedFieldsOf(patchOperations) ==
    {patchOperations[i].path[4] : i \in DOMAIN patchOperations} \ SupportedFields

\* ---- the arguments explored ----
\* flag.variations of the destination flag, each with its _id
VariationArrays == {[i \in 1..n |-> [_id |-> VariationId(i)]] : n \in 1..MaxVariations}
\* variation indices, the last beyond every array
Indices == 0..MaxVariations
WeightedVariations ==
    {<<[variation |-> a, weight |-> 60000], [variation |-> b, weight |-> 40000]>> :
        a \in Indices, b \in Indices}

\* the path of a patch on a field of the environment "test"
ConvPath(field) == <<"", "environments", "test", field>>
ConvPatch(field, op, value) ==
    [path |-> IF field = "rules" /\ op = "add" THEN ConvPath(field) \o <<"-">>
              ELSE ConvPath(field),
     op |-> op, value |-> value]
ConvPatches ==
    {ConvPatch("on", "replace", PatchValue(b, 0, Absent, NoRollout)) : b \in BOOLEAN}
    \cup {ConvPatch("offVariation", "replace", PatchValue(FALSE, i, Absent, NoRollout)) :
            i \in Indices}
    \cup {ConvPatch(f, op, PatchValue(FALSE, 0, i, NoRollout)) :
            f \in {"fallthrough"}, op \in {"replace"}, i \in Indices}
    \cup {ConvPatch("fallthrough", "replace", PatchValue(FALSE, 0, Absent, Rollout(w))) :
            w \in WeightedVariations}
    \cup {ConvPatch(f, op, PatchValue(FALSE, 0, i, NoRollout)) :
            f \in {"rules"}, op \in {"add"}, i \in Indices}
    \cup {ConvPatch("rules", "add", PatchValue(FALSE, 0, Absent, Rollout(w))) :
            w \in WeightedVariations}
    \cup {ConvPatch(f, "replace", PatchValue(TRUE, 0, Absent, NoRollout)) :
            f \in {"trackEvents", "targets", "prerequisites"}}

ConvInputs ==
    {[patches |-> p, variations |-> v] :
        p \in UNION {[1..n -> ConvPatches] : n \in 1..MaxPatches}, v \in VariationArrays}

NoConvOut == [done |-> FALSE, instructions |-> <<>>, skippedFields |-> <<>>]
\* a tracker no query was made on; `same` tells whether the array the caller
\* holds is the tracker's own array
QueryMethods == {"getReport", "getResolutions", "hasConflicts"}
NoneSeen == [m \in QueryMethods |-> {}]
NothingHeld == [held |-> FALSE, same |-> FALSE, array |-> <<>>]
CTIdle ==
    /\ ctSeen = NoneSeen
    /\ ctHeld = NothingHeld
\* no workflow is run
NoWorkflowConfig == [listed |-> FALSE, steps |-> <<>>, destination |-> FALSE,
                     thirdPartyImport |-> FALSE]
WFIdle ==
    /\ wfConfig = NoWorkflowConfig
    /\ wfPc = "idle"
    /\ wfIdx = 0
    /\ wfExit = 0
    /\ wfStarted = <<>>
    /\ wfCodes = <<>>
ConvIdle ==
    /\ convIn = [patches |-> <<>>, variations |-> <<>>]
    /\ convOut = NoConvOut
    /\ CTIdle
    /\ WFIdle

\* ------------------------------------------------------------------------
\* The requests of the script
\* ------------------------------------------------------------------------
AwaitPoints ==
    {"memberMe", "projectCheck", "environments", "projectCreate", "viewCheck",
     "viewCreate", "segmentCreate", "segmentPatch", "flagCheck", "flagCreate",
     "destFlag", "flagPatch", "approvalList", "approvalCreate"}

Method(kind) ==
    IF kind \in {"projectCreate", "viewCreate", "segmentCreate", "flagCreate",
                 "approvalCreate"} THEN "POST"
    ELSE IF kind \in {"segmentPatch", "flagPatch"} THEN "PATCH"
    ELSE "GET"

\* the routeCategory each call site passes to rateLimitRequest
Category(kind) ==
    CASE kind = "memberMe" -> "members"
      [] kind \in {"projectCheck", "projectCreate"} -> "projects"
      [] kind = "environments" -> "environments"
      [] kind \in {"viewCheck", "viewCreate"} -> "views"
      [] kind \in {"segmentCreate", "segmentPatch"} -> "segments"
      [] kind \in {"flagCheck", "flagCreate", "destFlag", "flagPatch"} -> "flags"
      [] kind \in {"approvalList", "approvalCreate"} -> "approval-requests"

\* the writes that go through dryRunAwarePost / dryRunAwarePatch
DryRunAware ==
    {"projectCreate", "segmentCreate", "segmentPatch", "flagCreate", "flagPatch",
     "approvalCreate"}

\* simulatePostRequest answers 201, simulatePatchRequest 200
SimulatedStatus(kind) == IF Method(kind) = "POST" THEN 201 ELSE 200

\* notifyMemberIds is the field of that name in the body of an approval-request
\* post; viewKeys is the field of that name in the body of a flag creation
\* POST; variationIds are the variation identifiers in the instructions of an
\* approval-request POST, instructions their number, maintainerId the
\* maintainerId of a flag creation body ("none" for null)
NoReq == [kind |-> "none", key |-> NoKey, env |-> 0, sim |-> FALSE,
          notifyMemberIds |-> <<>>, viewKeys |-> <<>>, variationIds |-> {},
          instructions |-> 0, maintainerId |-> "none"]
Request(kind, key, env) ==
    [kind |-> kind, key |-> key, env |-> env, sim |-> dryRun /\ kind \in DryRunAware,
     notifyMemberIds |-> <<>>, viewKeys |-> <<>>, variationIds |-> {},
     instructions |-> 0, maintainerId |-> "none"]

CreateKinds == {"segmentCreate", "flagCreate"}

\* ------------------------------------------------------------------------
\* The destination instance
\* ------------------------------------------------------------------------
EmptyFlags == [k \in {} |-> 0]
NewFlag(envs) == [e \in Range(envs) |-> DefaultEnvCfg]

RECURSIVE ApplyPatch(_, _, _)
\* the configuration after the patch operations from index i on
ApplyPatch(cfg, ops, i) ==
    IF i > Len(ops) THEN cfg
    ELSE LET p == ops[i]
             field == p.path[4]
             next == IF p.op = "add" /\ field = "rules"
                     THEN [cfg EXCEPT !.rules = Append(@, p.value)]
                     ELSE [cfg EXCEPT ![field] = p.value]
         IN  ApplyPatch(next, ops, i + 1)

ApprovalsOf(d, key, env) == {a \in d.approvals : a.flag = key /\ a.env = env}

\* what a destination in state d, serving faithfully, answers to request r
FaithfulStatus(d, r) ==
    CASE r.kind = "memberMe" -> IF d.member THEN 200 ELSE 404
      [] r.kind = "projectCheck" -> IF d.project THEN 200 ELSE 404
      [] r.kind = "environments" -> IF d.project THEN 200 ELSE 404
      [] r.kind = "projectCreate" -> IF d.project THEN 409 ELSE 201
      [] r.kind = "viewCheck" -> IF r.key.base \in d.views THEN 200 ELSE 404
      [] r.kind = "viewCreate" -> IF r.key.base \in d.views THEN 409 ELSE 201
      [] r.kind = "segmentCreate" ->
            IF ~d.project \/ r.env \notin Range(d.envs) THEN 404
            ELSE IF <<r.env, r.key>> \in d.segments THEN 409 ELSE 201
      [] r.kind = "segmentPatch" -> IF <<r.env, r.key>> \in d.segments THEN 200 ELSE 404
      [] r.kind = "flagCheck" -> IF r.key \in DOMAIN d.flags THEN 200 ELSE 404
      [] r.kind = "flagCreate" ->
            IF ~d.project THEN 404
            ELSE IF r.key \in DOMAIN d.flags THEN 409 ELSE 201
      [] r.kind = "destFlag" -> IF r.key \in DOMAIN d.flags THEN 200 ELSE 404
      [] r.kind = "flagPatch" ->
            IF r.key \notin DOMAIN d.flags THEN 404
            ELSE IF r.env \notin DOMAIN d.flags[r.key] THEN 404
            ELSE IF r.env \in d.gated THEN 405 ELSE 200
      [] r.kind = "approvalList" -> IF r.key \in DOMAIN d.flags THEN 200 ELSE 404
      [] r.kind = "approvalCreate" -> IF r.key \in DOMAIN d.flags THEN 201 ELSE 404

\* the statuses a destination that may fail, race or throttle answers with
AnyStatus(kind) ==
    (IF Method(kind) = "GET" THEN {200, 404, 500}
     ELSE IF Method(kind) = "POST" THEN {201, 400, 409}
     ELSE {200, 400, 404, 405})
    \cup (IF kind = "projectCheck" THEN {409} ELSE {})
    \cup {429}

Answers(r) ==
    {FaithfulStatus(dest, r)}
    \cup (IF faults /\ deviations < MaxFaults THEN AnyStatus(r.kind) ELSE {})

\* the count of departures after the answer st to request r
Deviations(r, st) ==
    IF st = FaithfulStatus(dest, r) THEN deviations ELSE deviations + 1

\* the destination after answering request r with status st
ServerEffect(d, r, st) ==
    IF st \notin {200, 201} THEN d
    ELSE CASE r.kind = "projectCreate" ->
                [d EXCEPT !.project = TRUE, !.envs = projectEnvs]
           [] r.kind = "viewCreate" -> [d EXCEPT !.views = @ \cup {r.key.base}]
           [] r.kind = "segmentCreate" ->
                [d EXCEPT !.segments = @ \cup {<<r.env, r.key>>}]
           [] r.kind = "flagCreate" ->
                IF r.key \in DOMAIN d.flags THEN d
                ELSE [d EXCEPT !.flags = (r.key :> NewFlag(d.envs)) @@ @,
                               !.links = @ \cup ({r.key} \X Range(r.viewKeys))]
           [] r.kind = "flagPatch" ->
                IF r.key \in DOMAIN d.flags /\ r.env \in DOMAIN d.flags[r.key]
                THEN [d EXCEPT !.flags[r.key][r.env] =
                         ApplyPatch(@, BuildPatchReq(srcCfg, r.env), 1)]
                ELSE d
           [] r.kind = "approvalCreate" ->
                [d EXCEPT !.approvals =
                    @ \cup {[flag |-> r.key, env |-> r.env, status |-> "pending"]}]
           [] OTHER -> d

\* the body of the destination flag read (GET flags/{proj}/{key}?env=*)
DestFlagBody(d, key) ==
    [present |-> TRUE,
     environments |-> IF key \in DOMAIN d.flags THEN d.flags[key] ELSE NewFlag(d.envs)]
NoFlagBody == [present |-> FALSE]

\* destination states a run may start from
EmptyDest ==
    [project |-> FALSE, envs |-> <<>>, views |-> {}, segments |-> {},
     flags |-> EmptyFlags, links |-> {}, approvals |-> {}, gated |-> {},
     member |-> TRUE]
\* the keys of every source resource with up to n prefixes (0: none)
KeysUpTo(n, count) ==
    {Key(b) : b \in {x \in 1..count : n >= 1}}
    \cup {applyConflictPrefix(Key(b), "imported-") : b \in {x \in 1..count : n >= 2}}
ExistingDest(cfg, n, gated, approval) ==
    [project |-> TRUE, envs |-> projectEnvs, views |-> Range(flagViewKeys),
     segments |-> Range(projectEnvs) \X KeysUpTo(n, NumSegments),
     flags |-> [k \in KeysUpTo(n, NumFlags) |-> [e \in Range(projectEnvs) |-> cfg]],
     links |-> KeysUpTo(n, NumFlags) \X Range(flagViewKeys),
     approvals |-> IF approval = "none" THEN {}
                   ELSE {[flag |-> k, env |-> e, status |-> approval] :
                            k \in KeysUpTo(n, NumFlags), e \in Range(projectEnvs)},
     gated |-> IF gated THEN Range(projectEnvs) ELSE {}, member |-> TRUE]
\* a destination whose flags do not have their last environment yet
LaggingDest ==
    LET d == ExistingDest(DefaultEnvCfg, 1, FALSE, "none")
    IN  [d EXCEPT !.flags = [k \in DOMAIN d.flags |->
                                [e \in Range(projectEnvs) \ {projectEnvs[NumEnvs]} |->
                                    d.flags[k][e]]]]
\* a destination that lists the environments of the project in another order
\* than the source project
ReorderedDest ==
    [ExistingDest(DefaultEnvCfg, 1, FALSE, "none") EXCEPT
        !.envs = [i \in 1..NumEnvs |-> projectEnvs[NumEnvs + 1 - i]]]
\* a destination whose environments carry the keys the mapping renames the
\* source environments to
RenamedDest(n) ==
    LET renamed == [i \in 1..NumEnvs |-> RenamingMap[projectEnvs[i]]]
    IN  [project |-> TRUE, envs |-> renamed, views |-> Range(flagViewKeys),
         segments |-> Range(renamed) \X KeysUpTo(n, NumSegments),
         flags |-> [k \in KeysUpTo(n, NumFlags) |-> [e \in Range(renamed) |-> DefaultEnvCfg]],
         links |-> KeysUpTo(n, NumFlags) \X Range(flagViewKeys),
         approvals |-> {}, gated |-> {}, member |-> TRUE]
DestStates ==
    {EmptyDest, LaggingDest, ReorderedDest}
    \cup {ExistingDest(DefaultEnvCfg, n, FALSE, "none") : n \in 0..2}
    \cup {ExistingDest(DefaultEnvCfg, n, TRUE, a) :
            n \in 1..2, a \in {"none", "pending", "declined"}}

\* ------------------------------------------------------------------------
\* migrate_between_ld_instances.ts : the script
\* ------------------------------------------------------------------------
StatusCodes == {200, 201, 400, 404, 405, 409, 429, 500}
NoRes == [kind |-> "none", status |-> 0, key |-> NoKey, attempt |-> 0]
Received(kind, st) == [kind |-> kind, status |-> st, key |-> req.key, attempt |-> attemptCount]

\* what a response tells about the existence of the key of its request
Reported(r, st) ==
    IF \/ r.kind \in {"flagCheck", "destFlag"} /\ st = 200
       \/ r.kind \in CreateKinds /\ st \in {200, 201, 409}
    THEN {[type |-> Category(r.kind), env |-> r.env, key |-> r.key]}
    ELSE {}

\* C15 mutant: every client error on the PATCH starts the approval workflow
requiresApproval_AnyClientError(flagPatchStatus) ==
    flagPatchStatus >= 400 /\ flagPatchStatus < 500

\* `flagPatchStatus === 405` of makePatchCall (script line 1145)
requiresApproval(flagPatchStatus) == flagPatchStatus = 405

\* C17 mutant: a 404 is retried three times
MayRetryPatch_Thrice(count) == count < 3

\* `retryCount < 2` of makePatchCall (script line 1140)
MayRetryPatch(count) == count < 2

\* the answers to the PATCHes of one flag environment, the answer st to
\* request r added
Logged(r, st) ==
    IF r.kind # "flagPatch" THEN patchLog
    ELSE LET e == [key |-> r.key, env |-> r.env, status |-> st]
         IN  IF patchLog # <<>> /\ patchLog[1].key = r.key /\ patchLog[1].env = r.env
             THEN Append(patchLog, e) ELSE <<e>>

\* the resource whose operation r ends on st, when st is a failure status:
\* 4xx/5xx other than 429, 409 on a creation, 405 on a PATCH and a 404 on a
\* PATCH that is tried again
Failed(r, st) ==
    IF /\ r.kind \in {"flagCreate", "segmentCreate", "segmentPatch", "flagPatch",
                      "approvalCreate"}
       /\ st >= 400
       /\ st # 429
       /\ ~(r.kind \in CreateKinds /\ st = 409)
       /\ ~(r.kind = "flagPatch" /\ st = 405)
       /\ ~(r.kind = "flagPatch" /\ st = 404 /\ MayRetryPatch(retryCount))
    THEN {[type |-> Category(r.kind), env |-> r.env, key |-> r.key]}
    ELSE {}

\* what the answer st to request r shows of the approval workflow: the PATCH
\* of a flag environment was answered 405, the patch list was converted (no
\* active approval request was found), the approval-request POST was answered
\* 2xx
ApprovalEvent(r, st) ==
    LET Event(step) == {[flag |-> r.key, env |-> r.env, step |-> step]}
    IN  IF r.kind = "flagPatch" /\ st = 405 THEN Event("405")
        ELSE IF /\ r.kind = "approvalList"
                /\ ~(st = 200 /\ \E a \in ApprovalsOf(dest, r.key, r.env) :
                                     isActiveApprovalRequest(a))
        THEN Event("converted")
        ELSE IF r.kind = "approvalCreate" /\ st >= 200 /\ st < 300 THEN Event("posted")
        ELSE {}

\* a response with status st to the awaited request reaches the script
\* (rateLimitRequest returned it, or the dry run simulated it)
Response(kind, st) ==
    /\ pc = kind
    /\ IF req.sim THEN st = SimulatedStatus(kind)
       ELSE st \in Answers(req) /\ AfterResponse(st, Category(kind)) = "returned"
    /\ dest' = IF req.sim THEN dest ELSE ServerEffect(dest, req, st)
    /\ deviations' = IF req.sim THEN deviations ELSE Deviations(req, st)
    /\ known' = IF req.sim THEN known ELSE known \cup Reported(req, st)
    /\ lastRes' = Received(kind, st)
    /\ patchLog' = IF req.sim THEN patchLog ELSE Logged(req, st)
    /\ failures' = IF req.sim THEN failures ELSE failures \cup Failed(req, st)
    /\ approvalEvents' = IF req.sim THEN approvalEvents
                         ELSE approvalEvents \cup ApprovalEvent(req, st)
    /\ UNCHANGED <<rejections, runNo, prevStatus, cfgVars, convVars, rlVars>>

\* the script awaits request r
Await(r) == pc' = r.kind /\ req' = r

SegIdle == segEnvIdx' = 0 /\ segIdx' = 0 /\ segmentKey' = NoKey
FlagIdle ==
    /\ flagIdx' = 0
    /\ flagKey' = NoKey
    /\ flagAlreadyExisted' = FALSE
    /\ createdFlagKey' = NoKey
    /\ destinationFlag' = NoFlagBody
    /\ envIdx' = 0
    /\ retryCount' = 0
    /\ flagMaintainerId' = "none"

\* getMigrationStatusMessage(approvalsCount, errorsCount)
getMigrationStatusMessage(approvalsCount, errorsCount) ==
    IF approvalsCount > 0 THEN "pending approval(s)"
    ELSE IF errorsCount > 0 THEN "error(s)"
    ELSE "successfully"

\* the flag loop is over: printMigrationSummary and the end of the script
Finish ==
    /\ pc' = "done"
    /\ req' = NoReq
    /\ viewIdx' = 0
    /\ SegIdle
    /\ FlagIdle
    /\ attemptCount' = 0
    /\ createKeys' = <<>>
    /\ resCount' = 0

\* iteration i of `for (const [index, flagkey] of flagList.entries())`, up to
\* the existence check (script lines 1176-1216)
StartFlag(i) ==
    IF i > NumFlags THEN Finish
    ELSE /\ Await(Request("flagCheck", Key(flagList[i]), 0))
         /\ viewIdx' = 0
         /\ SegIdle
         /\ attemptCount' = 0
         /\ flagIdx' = i
         /\ flagKey' = Key(flagList[i])
         /\ flagAlreadyExisted' = FALSE
         /\ createdFlagKey' = Key(flagList[i])
         /\ destinationFlag' = NoFlagBody
         /\ envIdx' = 0
         /\ retryCount' = 0
         /\ flagMaintainerId' = "none"
         /\ createKeys' = <<>>
         /\ resCount' = 0

\* `inputArgs.envMap` is given
MappingGiven == DOMAIN envMapping # {}

\* envkeys after the environment filter and the filter to the mapped source
\* environments (script lines 340-381)
SelectedEnvs ==
    LET Requested(key) == key \in environments
        Mapped(key) == key \in DOMAIN envMapping
        filtered == IF environments = {} THEN projectEnvs
                    ELSE SelectSeq(projectEnvs, Requested)
    IN  IF MappingGiven THEN SelectSeq(filtered, Mapped) ELSE filtered

\* `inputArgs.envMap && envMapping[env] ? envMapping[env] : env` (script lines
\* 537 and 1393)
destEnvKey(env) ==
    IF MappingGiven /\ env \in DOMAIN envMapping THEN envMapping[env] ELSE env

\* projectJson.environments.items.filter(env => envkeys.includes(env.key))
envsToMigrate(ek) ==
    LET Selected(env) == env \in Range(ek)
    IN  SelectSeq(projectEnvs, Selected)

\* segment i of environment e of the segment loops, up to the first creation
\* POST (script lines 525-572)
StartSegment(e, i, ek) ==
    LET pos == IF i > NumSegments THEN <<e + 1, 1>> ELSE <<e, i>>
    IN  IF pos[1] > Len(envsToMigrate(ek)) THEN StartFlag(1)
        ELSE LET env == destEnvKey(envsToMigrate(ek)[pos[1]])
                 key == Key(segmentItems[pos[2]])
                 r == Request("segmentCreate", key, env)
             IN  /\ Await(r)
                 /\ viewIdx' = 0
                 /\ segEnvIdx' = pos[1]
                 /\ segIdx' = pos[2]
                 /\ segmentKey' = key
                 /\ attemptCount' = 1
                 /\ FlagIdle
                 /\ createKeys' = IF r.sim THEN <<>>
                                  ELSE <<[key |-> key, env |-> env, after |-> 0]>>
                 /\ resCount' = 0

\* allViewKeys: the view keys of the source flags, then the target view
\* (script lines 455-483)
allViewKeys == AddOnce(flagViewKeys, targetView)

\* view i of `for (const viewKey of allViewKeys)` (script lines 490-493)
StartView(i, ek) ==
    IF i > Len(allViewKeys) THEN StartSegment(1, 1, ek)
    ELSE /\ Await(Request("viewCheck", Key(allViewKeys[i]), 0))
         /\ viewIdx' = i
         /\ SegIdle
         /\ FlagIdle
         /\ attemptCount' = 0
         /\ createKeys' = <<>>
         /\ resCount' = 0

\* destinationFlag?.environments?.[env]
CurrentEnvConfig(df, env) ==
    IF df.present /\ env \in DOMAIN df.environments
    THEN EnvConfig(df.environments[env]) ELSE NoEnvConfig

\* the environments of envkeys, from position j on, whose patch is sent
\* (script 1387-1390, makePatchCall 1119-1125)
PatchedFrom(j, df) ==
    {k \in j..Len(envkeys) :
        /\ envkeys[k] \in Range(projectEnvs)      \* flag.environments[env]
        /\ wouldPatchChangeEnvironment(CurrentEnvConfig(df, destEnvKey(envkeys[k])),
                                       BuildPatchReq(srcCfg, destEnvKey(envkeys[k])))}
Least(S) == CHOOSE k \in S : \A m \in S : k <= m

\* `for (const env of envkeys)` from position j on, up to the next PATCH
NextEnv(j, df) ==
    IF PatchedFrom(j, df) = {} THEN StartFlag(flagIdx + 1)
    ELSE LET k == Least(PatchedFrom(j, df))
         IN  /\ Await(Request("flagPatch", createdFlagKey, destEnvKey(envkeys[k])))
             /\ envIdx' = k
             /\ retryCount' = 0
             /\ destinationFlag' = df
             /\ UNCHANGED <<viewIdx, segVars, attemptCount, flagIdx, flagKey,
                            flagAlreadyExisted, createdFlagKey, flagMaintainerId,
                            createKeys, resCount>>

\* conflictTracker.addResolution({originalKey, resolvedKey, resourceType, ...})
addResolution(originalKey, resolvedKey, resourceType) ==
    resolutions' = Append(resolutions,
                          [originalKey |-> originalKey, resolvedKey |-> resolvedKey,
                           resourceType |-> resourceType,
                           conflictPrefix |-> conflictPrefix])

\* C5 mutant: the prefix branch is taken on every 409
retryWithPrefix_AnyAttempt(attempt) == conflictPrefix # ""

\* `inputArgs.conflictPrefix && attemptCount === 1` (script lines 581 and 1332)
retryWithPrefix(attempt) == conflictPrefix # "" /\ attempt = 1

\* C35 mutant: every answer but a 409 counts as a creation
resourceCreated_UnlessConflict(status) == status # 409

\* `status === 201 || status === 200` of the creation loops (script lines 576
\* and 1322)
resourceCreated(status) == status \in {200, 201}

\* `attemptCount < 2` of the creation loops (script lines 553 and 1249)
mayAttempt(attempt) == attempt < 2

RECURSIVE AddAll(_, _, _)
\* flag.viewKeys.forEach: each key from index i on is pushed unless included
AddAll(viewKeys, more, i) ==
    IF i > Len(more) THEN viewKeys
    ELSE AddAll(AddOnce(viewKeys, more[i]), more, i + 1)

\* viewKeys of the flag creation body (script lines 1291-1310): the target
\* view first, then the views of the source flag
CreationViewKeys ==
    AddAll(IF targetView # NoView THEN <<targetView>> ELSE <<>>, flagViewKeys, 1)

\* one more creation POST for the current resource
\* flag.maintainerId of the source flag and its entry in
\* maintainer_mapping.json (a destination member id)
SourceMaintainerId == "source member"
DestinationMemberId == "maintainer"

\* C38 mutant: the maintainer of the source flag is kept when nothing is mapped
newFlagMaintainerId_Source ==
    IF assignMaintainerIds /\ maintainerMapped THEN DestinationMemberId
    ELSE SourceMaintainerId

\* newFlag.maintainerId (script lines 1259-1272)
newFlagMaintainerId ==
    IF assignMaintainerIds
    THEN IF maintainerMapped THEN DestinationMemberId ELSE "none"
    ELSE "none"

AwaitCreate(kind, key, env, st) ==
    LET r == IF kind = "flagCreate"
             THEN [Request(kind, key, env) EXCEPT
                        !.viewKeys = CreationViewKeys,
                        !.maintainerId = newFlagMaintainerId]
             ELSE Request(kind, key, env)
    IN  /\ Await(r)
        /\ createKeys' = IF r.sim THEN createKeys
                         ELSE Append(createKeys, [key |-> key, env |-> env, after |-> st])

\* the maintainer of the flag creation body (script lines 1263-1272): assigned
\* only when the option is set and the source maintainer has a mapping
MappedMaintainer(current) ==
    IF assignMaintainerIds /\ maintainerMapped THEN "maintainer" ELSE current

\* determineNotificationRecipients(maintainerId, fallbackMemberId).recipients
determineNotificationRecipients(maintainerId, fallbackMemberId) ==
    IF maintainerId # "none" THEN <<maintainerId>>
    ELSE IF fallbackMemberId # "none" THEN <<fallbackMemberId>>
    ELSE <<>>

\* the approval-request POST with the body of createApprovalRequestBody:
\* notifyMemberIds is set only when there are recipients
createApprovalRequest(key, env, instructionIds, maintainerId, fallbackMemberId) ==
    [Request("approvalCreate", key, env) EXCEPT
        !.variationIds = instructionIds.ids,
        !.instructions = instructionIds.count,
        !.notifyMemberIds = determineNotificationRecipients(maintainerId,
                                                           fallbackMemberId)]

\* `let destinationVariations = flag.variations` unless the destination flag
\* was read (script lines 1366-1381)
destinationVariations(df) ==
    IF df.present THEN DestinationVariations ELSE SourceVariations

\* trackApprovalRequest(flagKey, env, skippedFields)
trackApprovalRequest(key, env, skippedFields) ==
    approvalRequestsCreated' =
        Append(approvalRequestsCreated,
               [flag |-> key, env |-> env, skippedFields |-> skippedFields])

\* skippedFieldsByFlag, which trackApprovalRequest fills from the entries with
\* skipped fields (script lines 913-918)
skippedFieldsByFlag ==
    LET entries == {i \in DOMAIN approvalRequestsCreated :
                       approvalRequestsCreated[i].skippedFields # {}}
    IN  [k \in {approvalRequestsCreated[i].flag : i \in entries} |->
            UNION {approvalRequestsCreated[i].skippedFields :
                      i \in {j \in entries : approvalRequestsCreated[j].flag = k}}]

\* script lines 248-251: the first request
Start ==
    /\ pc = "start"
    /\ Await(Request("memberMe", NoKey, 0))
    /\ UNCHANGED <<exitCode, runNo, prevStatus, currentMemberId, envkeys, viewIdx,
                   segVars, attemptCount, flagVars, outVars, dest, known, createKeys,
                   resCount, lastRes, patchLog, failures, approvalEvents, cfgVars,
                   convVars,
                   rejections, deviations, rlVars>>

\* script lines 252-385: members/me answered, project existence request
OnMemberMe ==
    \E st \in StatusCodes :
        /\ Response("memberMe", st)
        /\ currentMemberId' = IF st = 200 THEN "member" ELSE "none"
        /\ Await(Request("projectCheck", NoKey, 0))
        /\ UNCHANGED <<exitCode, envkeys, viewIdx, segVars, attemptCount, flagVars, outVars,
                       createKeys, resCount>>

\* checkProjectExists answered (script lines 385-392 and 421-444)
OnProjectCheck ==
    \E st \in StatusCodes :
        /\ Response("projectCheck", st)
        /\ IF st = 200 THEN Await(Request("environments", NoKey, 0))
           ELSE Await(Request("projectCreate", NoKey, 0))
        /\ UNCHANGED <<exitCode, currentMemberId, envkeys, viewIdx, segVars, attemptCount,
                       flagVars, outVars, createKeys, resCount>>

\* the mapped destination environments that are not among existingEnvs
\* (script lines 397-398)
missingDestEnvs(ek, existingEnvs) ==
    LET Missing(destKey) == destKey \notin Range(existingEnvs)
    IN  SelectSeq([i \in DOMAIN ek |-> envMapping[ek[i]]], Missing)

\* getExistingEnvironments answered (script lines 139-147, 392-420, 453-493)
OnEnvironments ==
    \E st \in StatusCodes :
        /\ Response("environments", st)
        /\ LET existingEnvs == IF st = 200 THEN dest.envs ELSE <<>>
           IN  IF MappingGiven
               THEN IF missingDestEnvs(envkeys, existingEnvs) # <<>>
                    THEN /\ pc' = "exited"
                         /\ exitCode' = 1
                         /\ UNCHANGED <<req, envkeys, viewIdx, segVars, attemptCount,
                                        flagVars, createKeys, resCount>>
                    ELSE /\ StartView(1, envkeys)
                         /\ UNCHANGED <<exitCode, envkeys>>
               ELSE /\ envkeys' = existingEnvs
                    /\ StartView(1, existingEnvs)
                    /\ UNCHANGED exitCode
        /\ UNCHANGED <<currentMemberId, outVars>>

\* the project creation POST answered (script lines 446-493)
OnProjectCreate ==
    \E st \in StatusCodes :
        /\ Response("projectCreate", st)
        /\ StartView(1, envkeys)
        /\ UNCHANGED <<exitCode, currentMemberId, envkeys, outVars>>

\* checkViewExists answered (script lines 493-505)
OnViewCheck ==
    \E st \in StatusCodes :
        /\ Response("viewCheck", st)
        /\ IF st = 200 THEN StartView(viewIdx + 1, envkeys)
           ELSE /\ Await(Request("viewCreate", req.key, 0))
                /\ UNCHANGED <<viewIdx, segVars, attemptCount, flagVars, createKeys,
                               resCount>>
        /\ UNCHANGED <<exitCode, currentMemberId, envkeys, outVars>>

\* createView answered (script lines 505-513)
OnViewCreate ==
    \E st \in StatusCodes :
        /\ Response("viewCreate", st)
        /\ StartView(viewIdx + 1, envkeys)
        /\ UNCHANGED <<exitCode, currentMemberId, envkeys, outVars>>

\* a segment creation POST answered (script lines 574-633)
OnSegmentCreate ==
    \E st \in StatusCodes :
        /\ Response("segmentCreate", st)
        /\ IF resourceCreated(st)
           THEN /\ Await(Request("segmentPatch", segmentKey, req.env))
                /\ UNCHANGED <<viewIdx, segVars, attemptCount, flagVars, createKeys,
                               resCount, resolutions>>
           ELSE IF st = 409
           THEN IF retryWithPrefix(attemptCount)
                THEN LET original == Key(segmentItems[segIdx])
                         prefixed == applyConflictPrefix(original, conflictPrefix)
                     IN  /\ addResolution(original, prefixed, "segment")
                         /\ IF mayAttempt(attemptCount)
                            THEN /\ segmentKey' = prefixed
                                 /\ attemptCount' = attemptCount + 1
                                 /\ resCount' = resCount + 1
                                 /\ AwaitCreate("segmentCreate", prefixed, req.env, st)
                                 /\ UNCHANGED <<viewIdx, segEnvIdx, segIdx, flagVars>>
                            ELSE StartSegment(segEnvIdx, segIdx + 1, envkeys)
                ELSE /\ Await(Request("segmentPatch", segmentKey, req.env))
                     /\ UNCHANGED <<viewIdx, segVars, attemptCount, flagVars,
                                    createKeys, resCount, resolutions>>
           ELSE /\ StartSegment(segEnvIdx, segIdx + 1, envkeys)
                /\ UNCHANGED resolutions
        /\ UNCHANGED <<exitCode, currentMemberId, envkeys, flagsWithErrors,
                       approvalRequestsCreated>>

\* the segment PATCH answered (script lines 635-641)
OnSegmentPatch ==
    \E st \in StatusCodes :
        /\ Response("segmentPatch", st)
        /\ StartSegment(segEnvIdx, segIdx + 1, envkeys)
        /\ UNCHANGED <<exitCode, currentMemberId, envkeys, outVars>>

\* C34 mutant: the lookup never finds the flag
flagExists_Never(status) == FALSE

\* `checkFlagResp.status === 200` (script line 1218)
flagExists(status) == status = 200

\* the flag existence check answered (script lines 1218-1320, 1363-1375)
OnFlagCheck ==
    \E st \in StatusCodes :
        /\ Response("flagCheck", st)
        /\ IF flagExists(st)
           THEN IF conflictPrefix # ""
                THEN LET original == Key(flagList[flagIdx])
                         prefixed == applyConflictPrefix(original, conflictPrefix)
                     IN  /\ flagKey' = prefixed
                         /\ addResolution(original, prefixed, "flag")
                         /\ resCount' = resCount + 1
                         /\ attemptCount' = attemptCount + 1
                         /\ flagMaintainerId' = MappedMaintainer(flagMaintainerId)
                         /\ AwaitCreate("flagCreate", prefixed, 0, st)
                         /\ UNCHANGED <<flagAlreadyExisted, createdFlagKey>>
                ELSE /\ flagAlreadyExisted' = TRUE
                     /\ createdFlagKey' = flagKey
                     /\ Await(Request("destFlag", flagKey, 0))
                     /\ UNCHANGED <<flagKey, attemptCount, flagMaintainerId,
                                    createKeys, resCount, resolutions>>
           ELSE /\ attemptCount' = attemptCount + 1
                /\ flagMaintainerId' = MappedMaintainer(flagMaintainerId)
                /\ AwaitCreate("flagCreate", flagKey, 0, st)
                /\ UNCHANGED <<flagKey, flagAlreadyExisted, createdFlagKey, resCount,
                               resolutions>>
        /\ UNCHANGED <<exitCode, currentMemberId, envkeys, viewIdx, segVars, flagIdx,
                       destinationFlag, envIdx, retryCount, flagsWithErrors,
                       approvalRequestsCreated>>

\* a flag creation POST answered (script lines 1322-1375)
OnFlagCreate ==
    \E st \in StatusCodes :
        /\ Response("flagCreate", st)
        /\ IF resourceCreated(st)
           THEN /\ createdFlagKey' = flagKey
                /\ Await(Request("destFlag", flagKey, 0))
                /\ UNCHANGED <<viewIdx, segVars, attemptCount, flagIdx, flagKey,
                               flagAlreadyExisted, destinationFlag, envIdx, retryCount,
                               flagMaintainerId, createKeys, resCount, resolutions>>
           ELSE IF st = 409
           THEN IF retryWithPrefix(attemptCount)
                THEN LET original == Key(flagList[flagIdx])
                         prefixed == applyConflictPrefix(original, conflictPrefix)
                     IN  /\ addResolution(original, prefixed, "flag")
                         /\ IF mayAttempt(attemptCount)
                            THEN /\ flagKey' = prefixed
                                 /\ flagAlreadyExisted' = FALSE
                                 /\ attemptCount' = attemptCount + 1
                                 /\ resCount' = resCount + 1
                                 /\ flagMaintainerId' = MappedMaintainer(flagMaintainerId)
                                 /\ AwaitCreate("flagCreate", prefixed, 0, st)
                                 /\ UNCHANGED <<viewIdx, segVars, flagIdx,
                                                createdFlagKey, destinationFlag,
                                                envIdx, retryCount>>
                            ELSE StartFlag(flagIdx + 1)
                ELSE /\ createdFlagKey' = flagKey
                     /\ Await(Request("destFlag", flagKey, 0))
                     /\ UNCHANGED <<viewIdx, segVars, attemptCount, flagIdx, flagKey,
                                    flagAlreadyExisted, destinationFlag, envIdx,
                                    retryCount, flagMaintainerId, createKeys, resCount,
                                    resolutions>>
           ELSE /\ StartFlag(flagIdx + 1)
                /\ UNCHANGED resolutions
        /\ UNCHANGED <<exitCode, currentMemberId, envkeys, flagsWithErrors,
                       approvalRequestsCreated>>

\* the destination flag read answered (script lines 1377-1427, makePatchCall
\* up to its PATCH)
OnDestFlag ==
    \E st \in StatusCodes :
        /\ Response("destFlag", st)
        /\ NextEnv(1, IF st = 200 THEN DestFlagBody(dest, req.key) ELSE NoFlagBody)
        /\ UNCHANGED <<exitCode, currentMemberId, envkeys, outVars>>

\* a flag PATCH answered (makePatchCall 1138-1159, handlePatchResponse,
\* handleApprovalWorkflow up to the list request)
OnFlagPatch ==
    \E st \in StatusCodes :
        /\ Response("flagPatch", st)
        /\ IF st = 404 /\ MayRetryPatch(retryCount)
           THEN /\ retryCount' = retryCount + 1
                /\ Await(req)
                /\ UNCHANGED <<viewIdx, segVars, attemptCount, flagIdx, flagKey,
                               flagAlreadyExisted, createdFlagKey, destinationFlag,
                               envIdx, flagMaintainerId, createKeys, resCount,
                               flagsWithErrors>>
           ELSE IF requiresApproval(st)
           THEN /\ Await(Request("approvalList", req.key, req.env))
                /\ UNCHANGED <<viewIdx, segVars, attemptCount, flagVars, createKeys,
                               resCount, flagsWithErrors>>
           ELSE /\ flagsWithErrors' = IF st >= 400 THEN flagsWithErrors \cup {req.key}
                                      ELSE flagsWithErrors
                /\ NextEnv(envIdx + 1, destinationFlag)
        /\ UNCHANGED <<exitCode, currentMemberId, envkeys, resolutions, approvalRequestsCreated>>

\* C37 mutant: the approval request is submitted whatever the conversion gave
noValidInstructions_Never(count) == FALSE

\* `conversionResult.instructions.length === 0` (script line 961)
noValidInstructions(count) == count = 0

\* findActiveApprovalRequests answered (script lines 846-852, 939-985)
OnApprovalList ==
    \E st \in StatusCodes :
        /\ Response("approvalList", st)
        /\ LET items == IF st # 200 THEN {} ELSE ApprovalsOf(dest, req.key, req.env)
               activeApprovals == {a \in items : isActiveApprovalRequest(a)}
               patchReq == BuildPatchReq(srcCfg, req.env)
           IN  IF activeApprovals # {}
               THEN /\ trackApprovalRequest(req.key, req.env, {})
                    /\ NextEnv(envIdx + 1, destinationFlag)
               ELSE IF noValidInstructions(InstructionCount(patchReq))
               THEN /\ NextEnv(envIdx + 1, destinationFlag)
                    /\ UNCHANGED approvalRequestsCreated
               ELSE /\ Await(createApprovalRequest(
                               req.key, req.env,
                               [count |-> InstructionCount(patchReq),
                                ids |-> InstructionVariationIds(
                                            patchReq,
                                            destinationVariations(destinationFlag))],
                               flagMaintainerId, currentMemberId))
                    /\ UNCHANGED <<viewIdx, segVars, attemptCount, flagVars, createKeys,
                                   resCount, approvalRequestsCreated>>
        /\ UNCHANGED <<exitCode, currentMemberId, envkeys, resolutions, flagsWithErrors>>

\* the approval request POST answered (script lines 987-997)
OnApprovalCreate ==
    \E st \in StatusCodes :
        /\ Response("approvalCreate", st)
        /\ IF st >= 200 /\ st < 300
           THEN /\ trackApprovalRequest(req.key, req.env,
                                        SkippedFieldsOf(BuildPatchReq(srcCfg, req.env)))
                /\ UNCHANGED flagsWithErrors
           ELSE /\ flagsWithErrors' = flagsWithErrors \cup {req.key}
                /\ UNCHANGED approvalRequestsCreated
        /\ NextEnv(envIdx + 1, destinationFlag)
        /\ UNCHANGED <<exitCode, currentMemberId, envkeys, resolutions>>

\* rateLimitRequest receives a 429 for the awaited request, waits and sends
\* the request again (utils.ts 196-203)
Throttled ==
    /\ pc \in AwaitPoints
    /\ ~req.sim
    /\ 429 \in Answers(req)
    /\ AfterResponse(429, Category(pc)) = "backoff"
    /\ deviations' = Deviations(req, 429)
    /\ lastRes' = Received(pc, 429)
    /\ UNCHANGED <<rejections, pc, req, exitCode, runNo, prevStatus, currentMemberId, envkeys,
                   viewIdx, segVars, attemptCount, flagVars, outVars, dest, known,
                   createKeys, resCount, patchLog, failures, approvalEvents, cfgVars,
                   convVars,
                   rlVars>>

\* rateLimitRequest ends the process: Deno.exit(1) (utils.ts 188-194)
Exit ==
    /\ pc \in AwaitPoints
    /\ ~req.sim
    /\ \E st \in Answers(req) :
          /\ AfterResponse(st, Category(pc)) = "exited"
          /\ lastRes' = Received(pc, st)
          /\ deviations' = Deviations(req, st)
    /\ pc' = "exited"
    /\ exitCode' = 1
    /\ UNCHANGED <<req, runNo, prevStatus, currentMemberId, envkeys, viewIdx, segVars,
                   attemptCount, flagVars, outVars, dest, known, createKeys, resCount,
                   patchLog, failures, approvalEvents, cfgVars, convVars, rejections,
                   rlVars>>

\* the operator runs the script again against the destination as it is
Rerun ==
    /\ pc = "done"
    /\ runNo < MaxRuns
    /\ ~faults
    /\ runNo' = runNo + 1
    /\ prevStatus' = getMigrationStatusMessage(Len(approvalRequestsCreated),
                                                Cardinality(flagsWithErrors))
    /\ pc' = "start"
    /\ currentMemberId' = "none"
    /\ envkeys' = SelectedEnvs
    /\ patchLog' = <<>>
    /\ failures' = {}
    /\ approvalEvents' = {}
    /\ resolutions' = <<>>
    /\ flagsWithErrors' = {}
    /\ approvalRequestsCreated' = <<>>
    /\ known' = {}
    /\ lastRes' = NoRes
    /\ UNCHANGED <<req, exitCode, viewIdx, segVars, attemptCount, flagVars, dest,
                   createKeys, resCount, cfgVars, convVars, rejections, deviations,
                   rlVars>>

\* the state of the script when it starts, for a configuration and a destination
MStart(prefix, dry, cfg, faulty, d) ==
    /\ conflictPrefix = prefix
    /\ dryRun = dry
    /\ srcCfg = cfg
    /\ faults = faulty
    /\ deviations = 0
    /\ dest = d
    /\ pc = "start"
    /\ req = NoReq
    /\ exitCode = 0
    /\ runNo = 1
    /\ prevStatus = "none"
    /\ currentMemberId = "none"
    /\ envkeys = SelectedEnvs
    /\ viewIdx = 0
    /\ segEnvIdx = 0
    /\ segIdx = 0
    /\ segmentKey = NoKey
    /\ attemptCount = 0
    /\ flagIdx = 0
    /\ flagKey = NoKey
    /\ flagAlreadyExisted = FALSE
    /\ createdFlagKey = NoKey
    /\ destinationFlag = NoFlagBody
    /\ envIdx = 0
    /\ retryCount = 0
    /\ flagMaintainerId = "none"
    /\ resolutions = <<>>
    /\ flagsWithErrors = {}
    /\ approvalRequestsCreated = <<>>
    /\ known = {}
    /\ createKeys = <<>>
    /\ resCount = 0
    /\ lastRes = NoRes
    /\ patchLog = <<>>
    /\ failures = {}
    /\ approvalEvents = {}

\* the options of a run: the environment allowlist and the maintainers
MOptions(requested, mapping, view, assign, mapped) ==
    /\ environments = requested
    /\ envMapping = mapping
    /\ targetView = view
    /\ assignMaintainerIds = assign
    /\ maintainerMapped = mapped

\* the runs explored against a destination that answers by its state
FaithfulRuns ==
    {[prefix |-> p, dry |-> dr, cfg |-> c, faulty |-> FALSE, d |-> d] :
        p \in ConflictPrefixes, dr \in BOOLEAN, c \in SrcCfgs, d \in DestStates}

\* the runs explored against a destination that may depart from its state
FaultyRuns ==
    {[prefix |-> p, dry |-> FALSE, cfg |-> [DefaultEnvCfg EXCEPT !.on = TRUE],
      faulty |-> TRUE, d |-> d] :
        p \in ConflictPrefixes,
        d \in {EmptyDest,
                ExistingDest(DefaultEnvCfg, 1, FALSE, "none"),
                ExistingDest(DefaultEnvCfg, 1, TRUE, "pending"),
                ExistingDest(DefaultEnvCfg, 2, FALSE, "none")}}
    \cup
    {[prefix |-> "", dry |-> FALSE, cfg |-> SparseCfg, faulty |-> TRUE,
      d |-> ExistingDest(DefaultEnvCfg, 1, TRUE, "none")]}

\* the runs explored with an environment allowlist, with maintainers, with an
\* environment mapping or with a target view: the
\* destination is empty or holds the project, with or without the flags, and
\* its environments may require approval; the token may be a service token
OptionRuns ==
    {[environments |-> {projectEnvs[1]}, envMap |-> NoEnvMapping, targetView |-> NoView,
      assign |-> FALSE,
      mapped |-> FALSE, dry |-> dr, d |-> d] :
        dr \in BOOLEAN,
        d \in {EmptyDest} \cup {ExistingDest(DefaultEnvCfg, n, FALSE, "none") : n \in 0..1}}
    \cup
    {[environments |-> {}, envMap |-> NoEnvMapping, targetView |-> NoView,
      assign |-> a, mapped |-> m,
      dry |-> FALSE,
      d |-> [ExistingDest(DefaultEnvCfg, n, TRUE, "none") EXCEPT !.member = t]] :
        a \in BOOLEAN, m \in BOOLEAN, n \in 0..1, t \in BOOLEAN}
    \cup
    {[environments |-> {}, envMap |-> RenamingMap, targetView |-> NoView,
      assign |-> FALSE, mapped |-> FALSE, dry |-> FALSE, d |-> d] :
        d \in {EmptyDest, ExistingDest(DefaultEnvCfg, 1, FALSE, "none"),
                RenamedDest(0), RenamedDest(1)}}
    \cup
    {[environments |-> {}, envMap |-> NoEnvMapping, targetView |-> v,
      assign |-> FALSE, mapped |-> FALSE, dry |-> FALSE, d |-> d] :
        v \in {flagViewKeys[1], NumViews + 1},
        d \in {EmptyDest} \cup {ExistingDest(DefaultEnvCfg, n, FALSE, "none") : n \in 0..1}}

Init ==
    /\ RLStart
    /\ always429 = FALSE
    /\ rejections = 0
    /\ ConvIdle
    /\ \/ \E r \in FaithfulRuns \cup FaultyRuns :
             /\ MOptions({}, NoEnvMapping, NoView, FALSE, FALSE)
             /\ MStart(r.prefix, r.dry, r.cfg, r.faulty, r.d)
       \/ \E r \in OptionRuns :
             /\ MOptions(r.environments, r.envMap, r.targetView, r.assign, r.mapped)
             /\ MStart("", r.dry, [DefaultEnvCfg EXCEPT !.on = TRUE], FALSE, r.d)

Next ==
    \/ Start
    \/ OnMemberMe
    \/ OnProjectCheck
    \/ OnEnvironments
    \/ OnProjectCreate
    \/ OnViewCheck
    \/ OnViewCreate
    \/ OnSegmentCreate
    \/ OnSegmentPatch
    \/ OnFlagCheck
    \/ OnFlagCreate
    \/ OnDestFlag
    \/ OnFlagPatch
    \/ OnApprovalList
    \/ OnApprovalCreate
    \/ Throttled
    \/ Exit
    \/ Rerun

Spec == Init /\ [][Next]_vars

\* every awaited request is answered and every 429 wait ends
SpecFair == Spec /\ WF_vars(Next)

\* ------------------------------------------------------------------------
\* The rate limiter on its own: a caller making calls, the script at rest
\* ------------------------------------------------------------------------
RLInit ==
    /\ RLStart
    /\ rejections = 0
    /\ ConvIdle
    /\ MOptions({}, NoEnvMapping, NoView, FALSE, FALSE)
    /\ MStart("", FALSE, DefaultEnvCfg, FALSE, EmptyDest)

RLNext == RLCall \/ RLFetch \/ RLRespond \/ RLRetry

SpecRL == RLInit /\ [][RLNext]_vars

\* timers fire and the server replies
SpecRLFair == SpecRL /\ WF_vars(RLFetch) /\ WF_vars(RLRespond) /\ WF_vars(RLRetry)

\* ------------------------------------------------------------------------
\* convertToSemanticPatch on its own: the arguments are drawn, then converted
\* ------------------------------------------------------------------------
Convert ==
    /\ ~convOut.done
    /\ convIn.patches # <<>>
    /\ convOut' = [done |-> TRUE] @@ convertToSemanticPatch(convIn.patches, convIn.variations)
    /\ UNCHANGED <<rlVars, rejections, cfgVars, pc, req, exitCode, runNo,
                   currentMemberId, envkeys, viewIdx, segVars, attemptCount, flagVars,
                   outVars, dest, deviations, obsVars, convIn, ctVars, wfVars>>

ConvInit ==
    /\ RLStart
    /\ always429 = FALSE
    /\ rejections = 0
    /\ MOptions({}, NoEnvMapping, NoView, FALSE, FALSE)
    /\ MStart("", FALSE, DefaultEnvCfg, FALSE, EmptyDest)
    /\ convIn \in ConvInputs
    /\ convOut = NoConvOut
    /\ CTIdle
    /\ WFIdle

ConvNext == Convert

SpecConv == ConvInit /\ [][ConvNext]_vars

\* ------------------------------------------------------------------------
\* utils.ts : ConflictTracker on its own, a caller making calls on one tracker
\* ------------------------------------------------------------------------
ResourceTypes == {"flag", "segment", "project"}

RECURSIVE groupConflictsByType(_, _, _)
\* resolutions.reduce(...): the counts per resourceType from entry i on, in the
\* order in which Object.entries lists the types (first occurrence)
groupConflictsByType(rs, i, acc) ==
    IF i > Len(rs) THEN acc
    ELSE LET type == rs[i].resourceType
             at == {j \in DOMAIN acc : acc[j].type = type}
         IN  groupConflictsByType(
                 rs, i + 1,
                 IF at = {} THEN Append(acc, [type |-> type, count |-> 1])
                 ELSE [j \in DOMAIN acc |->
                          IF j \in at THEN [acc[j] EXCEPT !.count = @ + 1] ELSE acc[j]])

\* the lines of the report; a line is the record of what it prints
formatTypeCountLine(entry) ==
    [line |-> "  - type: count", type |-> entry.type, count |-> entry.count]
formatResolutionLine(r) ==
    [line |-> "  - resourceType: originalKey -> resolvedKey",
     resourceType |-> r.resourceType, originalKey |-> r.originalKey,
     resolvedKey |-> r.resolvedKey]
createReportHeader(totalCount) ==
    <<[line |-> "CONFLICT RESOLUTION REPORT"],
      [line |-> "Total conflicts resolved", totalCount |-> totalCount]>>
createByTypeSection(byType) ==
    <<[line |-> "Conflicts by resource type:"]>>
    \o [i \in DOMAIN byType |-> formatTypeCountLine(byType[i])]
createResolutionsSection(rs) ==
    <<[line |-> "Conflict resolutions:"]>>
    \o [i \in DOMAIN rs |-> formatResolutionLine(rs[i])]
generateConflictReport(rs) ==
    IF Len(rs) = 0 THEN <<[line |-> "No conflicts encountered during migration."]>>
    ELSE createReportHeader(Len(rs))
         \o createByTypeSection(groupConflictsByType(rs, 1, <<>>))
         \o createResolutionsSection(rs)

\* C31 mutant: getResolutions hands out the tracker's own array
getResolutions_NoCopy == [held |-> TRUE, same |-> TRUE, array |-> resolutions]

\* the query methods of the tracker
getResolutions == [held |-> TRUE, same |-> FALSE, array |-> resolutions]
hasConflicts == Len(resolutions) > 0
getReport == generateConflictReport(resolutions)

\* what the calls on the tracker leave alone
CTFrame ==
    UNCHANGED <<rlVars, rejections, cfgVars, pc, req, exitCode, runNo,
                currentMemberId, envkeys, viewIdx, segVars, attemptCount, flagVars,
                flagsWithErrors, approvalRequestsCreated, dest, deviations, obsVars,
                convIn, convOut, wfVars>>

\* an array that is the tracker's own array changes with it
HeldAfter(rs) == IF ctHeld.same THEN [ctHeld EXCEPT !.array = rs] ELSE ctHeld

CTAdd ==
    /\ Len(resolutions) < MaxResolutions
    /\ \E type \in ResourceTypes :
          addResolution(Key(1), applyConflictPrefix(Key(1), conflictPrefix), type)
    /\ ctSeen' = NoneSeen
    /\ ctHeld' = HeldAfter(resolutions')
    /\ CTFrame

CTGetReport ==
    /\ ctSeen' = [ctSeen EXCEPT !["getReport"] = @ \cup {getReport}]
    /\ UNCHANGED <<resolutions, ctHeld>>
    /\ CTFrame

CTGetResolutions ==
    /\ ctHeld' = getResolutions
    /\ ctSeen' = [ctSeen EXCEPT !["getResolutions"] = @ \cup {getResolutions.array}]
    /\ UNCHANGED resolutions
    /\ CTFrame

CTHasConflicts ==
    /\ ctSeen' = [ctSeen EXCEPT !["hasConflicts"] = @ \cup {hasConflicts}]
    /\ UNCHANGED <<resolutions, ctHeld>>
    /\ CTFrame

\* the caller pushes an entry on the array it got from getResolutions()
CTCallerPush ==
    /\ ctHeld.held
    /\ Len(ctHeld.array) < MaxResolutions
    /\ LET pushed == Append(ctHeld.array,
                             [originalKey |-> Key(2), resolvedKey |-> Key(2),
                              resourceType |-> "project", conflictPrefix |-> ""])
       IN  /\ ctHeld' = [ctHeld EXCEPT !.array = pushed]
           /\ resolutions' = IF ctHeld.same THEN pushed ELSE resolutions
    /\ UNCHANGED ctSeen
    /\ CTFrame

CTInit ==
    /\ RLStart
    /\ always429 = FALSE
    /\ rejections = 0
    /\ ConvIdle
    /\ MOptions({}, NoEnvMapping, NoView, FALSE, FALSE)
    /\ MStart("imported-", FALSE, DefaultEnvCfg, FALSE, EmptyDest)

CTNext == CTAdd \/ CTGetReport \/ CTGetResolutions \/ CTHasConflicts \/ CTCallerPush

SpecCT == CTInit /\ [][CTNext]_vars

\* ------------------------------------------------------------------------
\* The workflow orchestrator on its own: main() over one configuration
\* ------------------------------------------------------------------------
DEFAULT_WORKFLOW_STEPS == <<"extract-source", "map-members", "migrate">>
\* the keys of STEP_EXECUTORS, and the names a configuration may list
StepNames == {"extract-source", "map-members", "migrate", "third-party-import"}
ListedNames == StepNames \cup {"unknown-step"}
\* exit codes of a child process
ExitCodes == {0, 1, 2}

\* the configurations explored: workflow.steps absent, or a list (which may be
\* empty); destination.projectKey and thirdPartyImport present or not
WorkflowConfigs ==
    {[listed |-> FALSE, steps |-> <<>>, destination |-> d, thirdPartyImport |-> t] :
        d \in BOOLEAN, t \in BOOLEAN}
    \cup
    {[listed |-> TRUE, steps |-> st, destination |-> d, thirdPartyImport |-> t] :
        d \in BOOLEAN, t \in BOOLEAN,
        st \in UNION {[1..n -> ListedNames] : n \in 0..MaxSteps}}

\* getWorkflowSteps: `config.workflow?.steps || DEFAULT_WORKFLOW_STEPS`; a
\* list, empty or not, is truthy
getWorkflowSteps(config) ==
    IF config.listed THEN config.steps ELSE DEFAULT_WORKFLOW_STEPS

RECURSIVE NextExecutor(_, _)
\* executeStep skips the steps that have no executor: the position, from i on,
\* of the next step that has one
NextExecutor(steps, i) ==
    IF i > Len(steps) \/ steps[i] \in StepNames THEN i
    ELSE NextExecutor(steps, i + 1)

\* validateMigrationConfig and validateThirdPartyConfig: Deno.exit(1)
failsValidation(step, config) ==
    \/ step = "migrate" /\ ~config.destination
    \/ step = "third-party-import" /\ ~config.thirdPartyImport

\* C32 mutant: the exit code of the command is ignored
commandFailed_Never(code) == FALSE

\* `code !== 0` of executeCommand
commandFailed(code) == code # 0

\* `for (const step of steps)` from position i on, up to the next command
ExecuteFrom(i) ==
    LET steps == getWorkflowSteps(wfConfig)
        k == NextExecutor(steps, i)
    IN  IF k > Len(steps)
        THEN /\ wfPc' = "completed"
             /\ UNCHANGED <<wfIdx, wfExit, wfStarted>>
        ELSE IF failsValidation(steps[k], wfConfig)
        THEN /\ wfPc' = "exited"
             /\ wfExit' = 1
             /\ UNCHANGED <<wfIdx, wfStarted>>
        ELSE /\ wfPc' = "command"
             /\ wfIdx' = k
             /\ wfStarted' = Append(wfStarted, steps[k])
             /\ UNCHANGED wfExit

WFFrame ==
    UNCHANGED <<rlVars, rejections, cfgVars, pc, req, exitCode, runNo,
                currentMemberId, envkeys, viewIdx, segVars, attemptCount, flagVars,
                outVars, dest, deviations, obsVars, convIn, convOut, ctVars>>

\* main(): the configuration is loaded and the first step is executed
WFMain ==
    /\ wfPc = "main"
    /\ ExecuteFrom(1)
    /\ UNCHANGED <<wfConfig, wfCodes>>
    /\ WFFrame

\* command.output() resolves with the exit code of the child process
WFCommandOutput ==
    /\ wfPc = "command"
    /\ \E code \in ExitCodes :
          /\ wfCodes' = Append(wfCodes, code)
          /\ IF commandFailed(code)
             THEN /\ wfPc' = "exited"
                  /\ wfExit' = 1
                  /\ UNCHANGED <<wfIdx, wfStarted>>
             ELSE ExecuteFrom(wfIdx + 1)
    /\ UNCHANGED wfConfig
    /\ WFFrame

WFInit ==
    /\ RLStart
    /\ always429 = FALSE
    /\ rejections = 0
    /\ convIn = [patches |-> <<>>, variations |-> <<>>]
    /\ convOut = NoConvOut
    /\ CTIdle
    /\ MOptions({}, NoEnvMapping, NoView, FALSE, FALSE)
    /\ MStart("", FALSE, DefaultEnvCfg, FALSE, EmptyDest)
    /\ wfConfig \in WorkflowConfigs
    /\ wfPc = "main"
    /\ wfIdx = 0
    /\ wfExit = 0
    /\ wfStarted = <<>>
    /\ wfCodes = <<>>

WFNext == WFMain \/ WFCommandOutput

SpecWF == WFInit /\ [][WFNext]_vars

\* ------------------------------------------------------------------------
\* Properties
\* ------------------------------------------------------------------------
PatchInFlight == pc \in {"segmentPatch", "flagPatch"} /\ ~req.sim
CreateInFlight == pc \in CreateKinds /\ ~req.sim

\* C1 (as claimed): in a pass that follows a pass which wrote to the
\* destination and ended "successfully" (no error, no approval request), with
\* nothing else changing the destination in between, no PATCH request is
\* dispatched, neither for a flag environment nor for a segment.
C1_SecondRunSendsNoPatch ==
    (runNo >= 2 /\ prevStatus = "successfully" /\ ~dryRun) => ~PatchInFlight

\* C2 (as claimed): no approval-request POST is dispatched for a flag and an
\* environment for which the destination holds an approval request whose
\* status is pending, scheduled or failed.
C2_NoDuplicateApprovalPost ==
    (pc = "approvalCreate" /\ ~req.sim)
        => ~(\E a \in ApprovalsOf(dest, req.key, req.env) : isActiveApprovalRequest(a))

\* C3 (as claimed): at most one ConflictResolution entry is recorded for the
\* resource being processed, whatever the destination answers.
C3_OneResolutionPerResource == resCount <= 1

\* C4 (as claimed): per resource at most two creation POSTs are dispatched,
\* the first with the original key, the second with the prefixed key and only
\* after a 409 with a prefix configured; without a prefix at most one.
C4_OriginalKeyThenPrefixedKey ==
    /\ Len(createKeys) <= 2
    /\ createKeys # <<>> => createKeys[1].key.pre = <<>>
    /\ Len(createKeys) >= 2 =>
          /\ createKeys[2].key.pre # <<>>
          /\ createKeys[2].after = 409
          /\ conflictPrefix # ""
    /\ conflictPrefix = "" => Len(createKeys) <= 1

\* the last response the script received is a 409 to a creation POST that
\* carried a prefixed key
CollidedAfterRename ==
    lastRes.kind \in CreateKinds /\ lastRes.status = 409 /\ lastRes.key.pre # <<>>

\* C5 (as claimed): when the prefixed key collides too, no creation POST is
\* dispatched in answer to it and, for a flag, the flag is among the flags
\* with errors.
C5_CollisionAfterRenameIsAnError ==
    CollidedAfterRename =>
        /\ ~CreateInFlight
        /\ lastRes.kind = "flagCreate" =>
              {lastRes.key, Key(lastRes.key.base)} \cap flagsWithErrors # {}

\* C5 (amended): a 409 answering the second creation POST of a resource is
\* not an error: the script awaits the next request for the same key (the
\* destination flag read, or the segment PATCH), the key is not among the
\* flags with errors, and no third creation POST has been dispatched.
C5_SecondCollisionMeansUpdate ==
    (lastRes.kind \in CreateKinds /\ lastRes.status = 409 /\ lastRes.attempt = 2) =>
        /\ pc = (IF lastRes.kind = "flagCreate" THEN "destFlag" ELSE "segmentPatch")
        /\ req.key = lastRes.key
        /\ lastRes.key \notin flagsWithErrors
        /\ Len(createKeys) <= 2

\* C5 witness: the second creation POST of a resource was answered 409 and the
\* script has gone on to the next request for that key.
C5_Witness ==
    /\ lastRes.kind \in CreateKinds
    /\ lastRes.status = 409
    /\ lastRes.attempt = 2
    /\ pc \in {"destFlag", "segmentPatch"}

\* C6 (as claimed): no creation POST is in flight for a key the destination
\* has already reported to exist in this pass (200 on its lookup, 2xx or 409
\* on its creation).
C6_NoCreateOfAKnownKey ==
    CreateInFlight =>
        [type |-> Category(pc), env |-> req.env, key |-> req.key] \notin known

\* C7: a request on a route category is never sent before the reset time T
\* announced by the last response on that category that reported remaining = 0
\* with T later than its arrival.
C7_NoSendBeforeReset == rlPc = "inflight" => now >= lastZero[rlCat]

\* C7 witness: a new call on a category whose last response reported
\* remaining = 0 with a later reset time has its request sent.
C7_Witness == rlPc = "inflight" /\ rlRetries = 0 /\ lastZero[rlCat] > 0

\* max(retry-after * 1000, x-ratelimit-reset - now, 1000) for a response
\* received at time t
RequiredWait(res, t) ==
    Max3(IF Has(res.headers, "retry-after") THEN res.headers["retry-after"] * 1000 ELSE 0,
         IF Has(res.headers, "x-ratelimit-reset")
         THEN res.headers["x-ratelimit-reset"] - t ELSE 0,
         1000)

\* C8: rateLimitRequest never returns a 429; while the last response is a 429
\* the call is waiting or has resubmitted; a resubmission is sent no earlier
\* than the required wait after the 429, carries the request that was
\* rejected, and is the only one for that rejection.
C8_RetriesEvery429 ==
    /\ [](rlPc = "returned" => rlRes.status # 429)
    /\ [](rlRes.status = 429 => rlPc \in {"backoff", "waiting", "inflight"})
    /\ [][(rlPc = "waiting" /\ rlPc' = "inflight" /\ rlRetries > 0) =>
              /\ rlSent' = rlSent
              /\ now' >= rlResAt + RequiredWait(rlRes, rlResAt)
              /\ rlSends' = rlRetries + 1]_vars

\* C8 witness: the request rejected with 429 has been sent again.
C8_Witness == rlPc = "inflight" /\ rlRetries > 0 /\ rlRes.status = 429 /\ rlSent = rlReq

\* C9 (as claimed): a call the server does not answer 429 forever eventually
\* returns its first non-429 response; a call answered 429 forever never
\* returns.
C9_ReturnsFirstNon429 ==
    /\ (rlPc = "inflight" /\ ~always429) ~> (rlPc = "returned" /\ rlRes = firstNon429)
    /\ [](always429 => rlPc # "returned")

\* C9 (amended): a call the server does not answer 429 forever eventually
\* ends: it returns its first non-429 response, or ends the process when that
\* response is a 409 on the 'projects' route category; a call answered 429
\* forever neither returns nor ends the process.
C9_EndsWithFirstNon429 ==
    /\ (rlPc = "inflight" /\ ~always429) ~> (rlPc \in {"returned", "exited"})
    /\ [](rlPc \in {"returned", "exited"} =>
              rlRes = firstNon429 /\ rlRes.status # 429)
    /\ [](rlPc = "exited" => rlRes.status = 409 /\ rlCat = "projects")
    /\ [](rlPc = "returned" => ~(rlRes.status = 409 /\ rlCat = "projects"))
    /\ [](always429 => rlPc \notin {"returned", "exited"})

\* C9 witness: a call that was rejected with 429 and resubmitted has ended.
C9_Witness == rlPc \in {"returned", "exited"} /\ rlRetries > 0 /\ rlRes = firstNon429

\* C10: after a 409 on the 'projects' route category the process has exited
\* with code 1, and an exited process takes no further step: no request
\* follows and the 409 is not retried.
C10_ProjectConflictExits ==
    /\ []((lastRes.kind \in {"projectCheck", "projectCreate"} /\ lastRes.status = 409)
            => (pc = "exited" /\ exitCode = 1))
    /\ [][pc = "exited" => UNCHANGED vars]_vars

\* C10 witness: the project creation POST was answered 409 and the process
\* has exited with code 1.
C10_Witness ==
    pc = "exited" /\ exitCode = 1 /\ lastRes.kind = "projectCreate" /\ lastRes.status = 409

\* the script leaves the flag environment it was patching
LeavesEnv ==
    /\ pc \in {"flagPatch", "approvalList", "approvalCreate"}
    /\ pc' \notin {"flagPatch", "approvalList", "approvalCreate"} \/ envIdx' # envIdx

C12_FailuresAreReported ==
    pc = "done" =>
        /\ \A f \in failures : f.key \in flagsWithErrors
        /\ failures # {} =>
              getMigrationStatusMessage(Len(approvalRequestsCreated),
                                        Cardinality(flagsWithErrors)) # "successfully"

\* the environment field a patch operation is on (the part of its path after
\* the environment key)
FieldOf(patch) == patch.path[4]

\* the operations the conversion supports: on, offVariation, fallthrough, and
\* rules with op add on path rules/-
SupportedOp(patch) ==
    \/ FieldOf(patch) \in {"on", "offVariation", "fallthrough"}
    \/ FieldOf(patch) = "rules" /\ patch.op = "add" /\ patch.path[Len(patch.path)] = "-"

\* an operation on an environment field outside the supported set
OtherFieldOp(patch) == FieldOf(patch) \notin SupportedFields

\* the variation indices a patch operation refers to
ReferencedIndices(patch) ==
    IF FieldOf(patch) = "offVariation" THEN {patch.value.num}
    ELSE IF FieldOf(patch) \in {"fallthrough", "rules"}
    THEN IF patch.value.variation # Absent THEN {patch.value.variation}
         ELSE {patch.value.rollout.variations[i].variation :
                  i \in DOMAIN patch.value.rollout.variations}
    ELSE {}

\* every index the operation refers to is an index of the variations array
Resolves(patch, variations) ==
    \A i \in ReferencedIndices(patch) : i >= 0 /\ i < Len(variations)

\* the kind of the instruction that stands for a supported operation
KindOf(patch) ==
    CASE FieldOf(patch) = "on" ->
            IF patch.value.bool THEN "turnFlagOn" ELSE "turnFlagOff"
      [] FieldOf(patch) = "offVariation" -> "updateOffVariation"
      [] FieldOf(patch) = "fallthrough" -> "updateFallthroughVariationOrRollout"
      [] OTHER -> "addRule"

\* the supported operations of a patch list, in order
SupportedOps(patches) == SelectSeq(patches, SupportedOp)

CarriesRawIndex(instruction) ==
    \/ instruction.variationId[1] = "index"
    \/ \E i \in DOMAIN instruction.rollout.variations :
          instruction.rollout.variations[i].variation[1] = "index"

\* C14 (as claimed): an operation one of whose variation indices (offVariation
\* value, fallthrough or rule variation, weighted variation of a rollout) does
\* not resolve in the variations array gives no instruction, so there are at
\* most as many instructions as supported operations whose indices all
\* resolve; and no instruction carries a raw variation index.
C14_UnresolvedIndexGivesNoInstruction ==
    convOut.done =>
        LET ps == convIn.patches
            vs == convIn.variations
        IN  /\ Len(convOut.instructions)
                  <= Cardinality({i \in DOMAIN ps :
                                     SupportedOp(ps[i]) /\ Resolves(ps[i], vs)})
            /\ \A k \in DOMAIN convOut.instructions :
                  ~CarriesRawIndex(convOut.instructions[k])

\* the answer (429 apart) to the last PATCH dispatched for the flag
\* environment of the awaited request
LastPatchAnswer ==
    IF patchLog # <<>> /\ patchLog[1].key = req.key /\ patchLog[1].env = req.env
    THEN patchLog[Len(patchLog)].status ELSE 0

\* C15: the approval workflow of a flag environment runs only after a direct
\* PATCH of that flag for that environment was answered 405: the list query
\* is dispatched in answer to that 405 and to nothing else, the
\* approval-request POST only from the answer to that list query and for the
\* same flag and environment, and a PATCH answered otherwise is followed by
\* neither.
C15_ApprovalOnlyAfter405AndList ==
    /\ [](pc \in {"approvalList", "approvalCreate"} => LastPatchAnswer = 405)
    /\ [][(pc' = "approvalList" /\ pc # "approvalList") =>
             /\ pc = "flagPatch"
             /\ lastRes'.kind = "flagPatch" /\ lastRes'.status = 405
             /\ req'.key = req.key /\ req'.env = req.env]_vars
    /\ [][(pc' = "approvalCreate" /\ pc # "approvalCreate") =>
             /\ pc = "approvalList"
             /\ lastRes'.kind = "approvalList"
             /\ req'.key = req.key /\ req'.env = req.env]_vars
    /\ [][(pc = "flagPatch" /\ lastRes'.kind = "flagPatch"
              /\ lastRes'.status \notin {405, 429}) =>
             pc' \notin {"approvalList", "approvalCreate"}]_vars

\* C15 witness: an approval-request POST is in flight.
C15_Witness == pc = "approvalCreate" /\ ~req.sim /\ LastPatchAnswer = 405

\* C16 (as claimed): the approval-request POST of a flag, created in this run
\* or found in the destination, notifies the mapped maintainer when maintainer
\* assignment is enabled and the source maintainer has a mapping; otherwise
\* the authenticated member when there is one; otherwise nobody, the body
\* then carrying no notifyMemberIds.
C16_NotifiesMaintainerThenMember ==
    pc = "approvalCreate" =>
        req.notifyMemberIds =
            IF assignMaintainerIds /\ maintainerMapped THEN <<"maintainer">>
            ELSE IF currentMemberId # "none" THEN <<currentMemberId>>
            ELSE <<>>

\* the last logged answer ends the PATCH of its flag environment on an error:
\* a 4xx/5xx other than 405, and for a 404 the third one
EndsOnError(log) ==
    /\ log # <<>>
    /\ log[Len(log)].status >= 400
    /\ log[Len(log)].status # 405
    /\ log[Len(log)].status = 404 => Len(log) = 3

\* a PATCH is awaited for the flag environment of the log
PatchAgain(log) ==
    /\ log # <<>>
    /\ pc = "flagPatch" /\ ~req.sim
    /\ req.key = log[1].key /\ req.env = log[1].env

\* C17: for one flag environment at most 3 PATCHes are dispatched (429
\* resubmissions apart), each but the first in answer to a 404; an answer that
\* ends the PATCH on an error (a third 404, or at once any other 4xx/5xx but
\* 405) puts the flag among the flags with errors, is not followed by another
\* PATCH of that flag environment, and does not end the run.
C17_AtMostTwoRetriesOf404 ==
    /\ Len(patchLog) <= 3
    /\ \A i \in 1..(Len(patchLog) - 1) : patchLog[i].status = 404
    /\ PatchAgain(patchLog) =>
          Len(patchLog) <= 2 /\ patchLog[Len(patchLog)].status = 404
    /\ EndsOnError(patchLog) =>
          /\ patchLog[1].key \in flagsWithErrors
          /\ ~PatchAgain(patchLog)
          /\ pc # "exited"

\* C17 witness: the third PATCH of a flag environment was answered 404, the
\* flag is among the flags with errors and the run has gone on.
C17_Witness ==
    /\ Len(patchLog) = 3
    /\ patchLog[3].status = 404
    /\ patchLog[1].key \in flagsWithErrors
    /\ pc = "done"

\* the destination flag makePatchCall is handed in this step
KnownFlag ==
    IF pc = "destFlag"
    THEN IF lastRes'.status = 200 THEN DestFlagBody(dest, req.key) ELSE NoFlagBody
    ELSE destinationFlag

\* positions in envkeys of the environments this step passes without a PATCH
PassedEnvs ==
    LET from == IF pc = "destFlag" THEN 1 ELSE envIdx + 1
        upto == IF pc' = "flagPatch" THEN envIdx' - 1 ELSE Len(envkeys)
    IN  {k \in from..upto : envkeys[k] \in Range(projectEnvs)}

\* the patch list of the environment leaves its known configuration as it is
LeavesUnchanged(df, env) ==
    /\ CurrentEnvConfig(df, env).present
    /\ ApplyPatch(CurrentEnvConfig(df, env).cfg, BuildPatchReq(srcCfg, env), 1)
          = CurrentEnvConfig(df, env).cfg

\* C18 (as claimed): an environment of a flag is passed without a PATCH only
\* if every operation of its patch list, on whatever field, would leave the
\* known destination configuration unchanged.
C18_SkipsOnlyNoOps ==
    [][((pc = "destFlag" /\ pc' # "destFlag") \/ LeavesEnv) =>
          \A k \in PassedEnvs : LeavesUnchanged(KnownFlag, destEnvKey(envkeys[k]))]_vars

\* a POST or a PATCH is on its way to the destination
WriteInFlight == pc \in AwaitPoints /\ Method(pc) \in {"POST", "PATCH"} /\ ~req.sim

\* C19 (as claimed): in dry-run mode no POST and no PATCH is dispatched to the
\* destination; project, view, segment, flag and approval-request writes are
\* simulated.
C19_DryRunDispatchesNoWrite == dryRun => ~WriteInFlight

\* C20 (as claimed): with an environment allowlist, every flag PATCH and every
\* segment request dispatched is for an environment of the allowlist, whether
\* the run creates the destination project or finds it.
C20_OnlyAllowlistedEnvironments ==
    (environments # {} /\ pc \in {"flagPatch", "segmentCreate", "segmentPatch"}
        /\ ~req.sim)
        => req.env \in environments

\* position of an environment in the source project's declared list, 0 when
\* the source project has no such environment
SourceIndex(env) ==
    IF env \in Range(projectEnvs)
    THEN CHOOSE i \in DOMAIN projectEnvs : projectEnvs[i] = env ELSE 0

\* the step dispatches the PATCH of another environment of the flag in turn
NextEnvPatch ==
    /\ pc \in {"flagPatch", "approvalList", "approvalCreate"}
    /\ pc' = "flagPatch"
    /\ flagIdx' = flagIdx
    /\ envIdx' # envIdx

\* C21 (as claimed): the flag PATCHes of a run are dispatched in the order of
\* (index of the flag in the flag list, index of the environment in the source
\* project's environment list): the flags have their turns in the order of the
\* list, every PATCH is for the flag whose turn it is, and within a flag each
\* PATCH is for an environment declared later in the source project than the
\* environment patched before it, whether the destination project is new or
\* exists.
C21_PatchesInSourceOrder ==
    /\ [][flagIdx' # flagIdx => flagIdx' \in {0, flagIdx + 1}]_vars
    /\ [](pc = "flagPatch" => req.key.base = flagList[flagIdx])
    /\ [][NextEnvPatch =>
             SourceIndex(envkeys[envIdx]) < SourceIndex(envkeys'[envIdx'])]_vars

\* the mapped destination environments of the selected source environments
\* that the destination project does not have
MissingMappedEnvs ==
    {envMapping[e] : e \in Range(SelectedEnvs)} \ Range(dest.envs)

\* a view, segment, flag, patch or approval-request write is on its way
MigrationWriteInFlight == WriteInFlight /\ pc # "projectCreate"

\* C22 (as claimed): when an environment mapping is given and a mapped
\* destination environment does not exist in the destination project, no
\* view, segment, flag, patch or approval-request write is dispatched, the
\* summary is never reached, and the process that has ended has exited with
\* code 1.
C22_MissingMappedEnvAborts ==
    (MappingGiven /\ MissingMappedEnvs # {}) =>
        /\ ~MigrationWriteInFlight
        /\ pc # "done"
        /\ pc = "exited" => exitCode = 1

\* the headers extractRateLimitHeaders reads
RateLimitHeaderNames ==
    {"x-ratelimit-global-remaining", "x-ratelimit-route-remaining",
     "x-ratelimit-remaining", "x-ratelimit-reset", "retry-after"}

\* a response carrying none of the rate-limit headers is observed in this step
ObservesHeaderless ==
    /\ rlPc = "inflight"
    /\ rlPc' # "inflight"
    /\ DOMAIN rlRes'.headers \cap RateLimitHeaderNames = {}

\* C23 (as claimed): observing a response that carries none of the rate-limit
\* headers leaves the stored state of every route category unchanged, and
\* creates no state for a category that had none.
C23_HeaderlessLeavesStateUntouched ==
    [][ObservesHeaderless => rateLimitState' = rateLimitState]_vars

\* C23 (amended): observing a response that carries none of the rate-limit
\* headers leaves globalRemaining, routeRemaining and resetTime of the stored
\* state of its route category unchanged and sets its lastUpdated to the time
\* of the observation; when the category had no state, a state with the
\* default values 100, 100 and 0 is created; in both cases the states of the
\* other categories and the proactive delay of the category stay the same.
C23_HeaderlessKeepsLimits ==
    [][ObservesHeaderless =>
          LET old == IF rlCat \in DOMAIN rateLimitState
                     THEN rateLimitState[rlCat] ELSE DefaultRateLimitState
              new == rateLimitState'[rlCat]
          IN  /\ DOMAIN rateLimitState' = DOMAIN rateLimitState \cup {rlCat}
              /\ new.globalRemaining = old.globalRemaining
              /\ new.routeRemaining = old.routeRemaining
              /\ new.resetTime = old.resetTime
              /\ new.lastUpdated = now'
              /\ \A c \in DOMAIN rateLimitState \ {rlCat} :
                    rateLimitState'[c] = rateLimitState[c]
              /\ \A j \in JitterValues :
                    calculateProactiveDelay(rateLimitState', rlCat, now', j)
                        = calculateProactiveDelay(rateLimitState, rlCat, now', j)]_vars

\* C23 witness: a response without rate-limit headers has been observed on a
\* route category whose stored state holds limits reported by an earlier
\* response.
C23_Witness ==
    /\ rlPc \in {"returned", "backoff"}
    /\ DOMAIN rlRes.headers \cap RateLimitHeaderNames = {}
    /\ rlCat \in DOMAIN rateLimitState
    /\ rateLimitState[rlCat].lastUpdated = now
    /\ rateLimitState[rlCat].routeRemaining # DefaultRateLimitState.routeRemaining

\* the delays the claim allows before a request on a route category at time t
ClaimedDelays(state, routeCategory, t) ==
    IF routeCategory \notin DOMAIN state THEN {50}
    ELSE LET st == state[routeCategory]
             remaining == Min2(st.globalRemaining, st.routeRemaining)
         IN  IF remaining > 3 THEN {50}
             ELSE IF st.resetTime <= t THEN {50}
             ELSE {Max2((IF remaining = 0 THEN st.resetTime - t
                         ELSE CeilDiv(st.resetTime - t, remaining)) + jitter, 50) :
                      jitter \in 0..99}

\* rateLimitRequest is entered in this step and starts its delay
EntersDelay == rlPc # "waiting" /\ rlPc' = "waiting"

\* C24: the delay applied before a request is 50 ms when the route category
\* has no state or min(globalRemaining, routeRemaining) > 3; otherwise, when
\* resetTime > now, max(ceil((resetTime - now) / remaining) + jitter, 50) with
\* jitter in 0..99 (resetTime - now plus jitter when remaining is 0), and 50 ms
\* when resetTime <= now; it is at least 50 ms, and the request is sent when
\* it has elapsed.
C24_ProactiveDelay ==
    /\ [][EntersDelay =>
             /\ rlWake' - now' \in ClaimedDelays(rateLimitState, rlCat', now')
             /\ rlWake' - now' >= 50]_vars
    /\ [][(rlPc = "waiting" /\ rlPc' = "inflight") => now' >= rlWake]_vars

\* C24 witness: a request waits longer than 50 ms on a route category with at
\* most 3 requests remaining and a reset time ahead.
C24_Witness ==
    /\ rlPc = "waiting"
    /\ rlCat \in DOMAIN rateLimitState
    /\ Min2(rateLimitState[rlCat].globalRemaining, rateLimitState[rlCat].routeRemaining)
          \in 1..3
    /\ rateLimitState[rlCat].resetTime > now
    /\ rlWake - now > 50

\* a request for the segment or the flag being processed is awaited
ResourceRequest ==
    pc \in {"segmentCreate", "segmentPatch", "flagCreate", "destFlag", "flagPatch",
            "approvalList", "approvalCreate"}

\* the source key of the segment or the flag being processed
OriginalKey ==
    IF pc \in {"segmentCreate", "segmentPatch"}
    THEN segmentItems[segIdx] ELSE flagList[flagIdx]

\* C25: once a conflict resolution is recorded for the resource being
\* processed (a flag, or a segment of one environment), every request awaited
\* for it (creation retry, destination read, flag or segment PATCH,
\* approval-request list and POST) carries the key made of the prefix, once,
\* and the original key.
C25_ResolvedKeyEverywhere ==
    (resCount >= 1 /\ ResourceRequest) =>
        /\ req.key.pre = <<conflictPrefix>>
        /\ req.key.base = OriginalKey
        /\ resolutions[Len(resolutions)].resolvedKey = req.key

\* C25 witness: after a conflict resolution a flag PATCH, a segment PATCH or an
\* approval-request POST is awaited.
C25_Witness ==
    /\ resCount >= 1
    /\ pc \in {"flagPatch", "segmentPatch", "approvalCreate"}
    /\ ~req.sim
    /\ req.key.pre = <<conflictPrefix>>

\* this step receives a 409 in answer to a creation POST
CreationConflict ==
    pc \in CreateKinds /\ lastRes'.kind = pc /\ lastRes'.status = 409

\* C26 (as claimed): a ConflictResolution entry is recorded, and a request for
\* a resource first carries a prefixed key, only in a step that receives a 409
\* in answer to a creation POST for that resource; a resource whose requests
\* carry a prefixed key has an entry.
C26_PrefixOnlyAfter409 ==
    /\ [][Len(resolutions') > Len(resolutions) => CreationConflict]_vars
    /\ [][(ResourceRequest' /\ req'.key.pre # <<>> /\ req.key.pre = <<>>)
             => CreationConflict]_vars
    /\ []((ResourceRequest /\ req.key.pre # <<>>) => resCount >= 1)

\* the identifiers the destination assigned to the variations of its flags
DestinationIds == {DestinationVariations[i]._id : i \in DOMAIN DestinationVariations}

\* C27 (as claimed): every variationId in the instructions of a submitted
\* approval request is an identifier the destination assigned to a variation
\* of the destination flag, also when the read of that flag failed.
C27_DestinationVariationIds ==
    (pc = "approvalCreate" /\ ~req.sim) => req.variationIds \subseteq DestinationIds

\* an approval request is submitted with the identifiers read from the
\* destination flag
C27_Reached ==
    /\ pc = "approvalCreate" /\ ~req.sim
    /\ destinationFlag.present
    /\ req.variationIds # {} /\ req.variationIds \subseteq DestinationIds

\* the set of (flag, environment) pairs of the events of one step
EventsOf(step) ==
    {<<e.flag, e.env>> : e \in {x \in approvalEvents : x.step = step}}

\* C28 (as claimed): with a target view configured, a flag whose update was
\* accepted ends the run linked to the target view and to the views of the
\* source flag, whether the run created it or found it; the viewKeys of a
\* creation body hold no key twice.
C28_TargetViewLinked ==
    /\ (pc = "done" /\ targetView # NoView /\ patchLog # <<>>
           /\ patchLog[Len(patchLog)].status = 200)
          => ({patchLog[1].key} \X Range(CreationViewKeys)) \subseteq dest.links
    /\ pc = "flagCreate"
          => \A i, j \in DOMAIN req.viewKeys : req.viewKeys[i] = req.viewKeys[j] => i = j

\* a flag the run created with a target view that is also a view of the source
\* flag ends the run linked to it
C28_Reached ==
    /\ pc = "done" /\ targetView \in Range(flagViewKeys)
    /\ patchLog # <<>> /\ patchLog[Len(patchLog)].status = 200
    /\ <<patchLog[1].key, targetView>> \in dest.links
    /\ runNo = 1 /\ ~faults

\* the entries of the approval-requests list of the report, as pairs
ReportedApprovals ==
    {<<approvalRequestsCreated[i].flag, approvalRequestsCreated[i].env>> :
        i \in DOMAIN approvalRequestsCreated}

\* C29 (as claimed): at the end of the run every entry of the approval-requests
\* list is an approval request whose POST was answered 2xx in this run, and the
\* total printed is the number of such requests.
C29_ReportedApprovalsWerePosted ==
    pc = "done" =>
        /\ ReportedApprovals \subseteq EventsOf("posted")
        /\ Len(approvalRequestsCreated) = Cardinality(EventsOf("posted"))

\* the run ends with an approval request it created in its report
C29_Reached ==
    /\ pc = "done" /\ approvalRequestsCreated # <<>>
    /\ ReportedApprovals = EventsOf("posted")

\* the non-migrated settings the report prints under a flag
NonMigratedSettings(key) ==
    IF key \in DOMAIN skippedFieldsByFlag THEN skippedFieldsByFlag[key] ELSE {}

\* C30 (as claimed): at the end of the run, the fields skipped by the
\* conversion of the patch list of a flag environment whose PATCH was answered
\* 405 are printed under that flag, also when the approval-request POST failed.
C30_SkippedFieldsReported ==
    pc = "done" =>
        \A e \in {x \in approvalEvents : x.step = "converted"} :
            SkippedFieldsOf(BuildPatchReq(srcCfg, e.env)) \subseteq NonMigratedSettings(e.flag)

\* the run ends with the skipped fields of a conversion in its report
C30_Reached ==
    /\ pc = "done" /\ EventsOf("converted") # {}
    /\ \E k \in DOMAIN skippedFieldsByFlag : "trackEvents" \in skippedFieldsByFlag[k]

\* the lines of a report that list a resolution, and those that count a type
ResolutionLines(report) ==
    SelectSeq(report, LAMBDA l : l.line = "  - resourceType: originalKey -> resolvedKey")
TypeCountLines(report) ==
    SelectSeq(report, LAMBDA l : l.line = "  - type: count")
RECURSIVE SumOfCounts(_, _)
SumOfCounts(lines, i) ==
    IF i > Len(lines) THEN 0 ELSE lines[i].count + SumOfCounts(lines, i + 1)

\* a report lists the entries of rs in their order, with a total of Len(rs)
\* and per-type counts that sum to it
ReportOf(report, rs) ==
    /\ Len(ResolutionLines(report)) = Len(rs)
    /\ \A i \in DOMAIN rs :
          /\ ResolutionLines(report)[i].resourceType = rs[i].resourceType
          /\ ResolutionLines(report)[i].originalKey = rs[i].originalKey
          /\ ResolutionLines(report)[i].resolvedKey = rs[i].resolvedKey
    /\ rs # <<>> =>
          /\ report[2].totalCount = Len(rs)
          /\ SumOfCounts(TypeCountLines(report), 1) = Len(rs)

\* C31: getReport, getResolutions and hasConflicts leave the recorded
\* resolutions unchanged and return the same value each time they are called
\* with no addResolution in between; the resolutions only grow, by appending;
\* the report lists them in insertion order with a total equal to their number
\* and per-type counts that sum to the total.
C31_QueriesAreReadOnly ==
    /\ [][(\E m \in QueryMethods : ctSeen'[m] # {} /\ ctSeen'[m] # ctSeen[m])
             => resolutions' = resolutions]_vars
    /\ [][resolutions' # resolutions
             => /\ Len(resolutions') = Len(resolutions) + 1
                /\ SubSeq(resolutions', 1, Len(resolutions)) = resolutions
                /\ ctSeen' = NoneSeen]_vars
    /\ [](\A m \in QueryMethods : Cardinality(ctSeen[m]) <= 1)
    /\ [](\A report \in ctSeen["getReport"] : ReportOf(report, resolutions))
    /\ [](\A a \in ctSeen["getResolutions"] : a = resolutions)
    /\ [](\A b \in ctSeen["hasConflicts"] : b = (resolutions # <<>>))

\* every query was made on a tracker holding resolutions of two types, and the
\* caller has pushed on the array it got
C31_Witness ==
    /\ Len(resolutions) >= 2
    /\ \E i, j \in DOMAIN resolutions :
          resolutions[i].resourceType # resolutions[j].resourceType
    /\ \A m \in QueryMethods : ctSeen[m] # {}
    /\ ctHeld.held /\ ctHeld.array # resolutions

\* the steps of a list that have an executor, in the order of the list
Executable(steps) == SelectSeq(steps, LAMBDA step : step \in StepNames)

\* the workflow over the list `steps`: the commands started are, in order, the
\* first executable steps of the list; a command is started only when all the
\* commands before it ended with code 0; a command that ends with another code
\* ends the workflow with code 1; a workflow that completes has run them all
RunsInOrder(steps) ==
    /\ Len(wfStarted) <= Len(Executable(steps))
    /\ wfStarted = SubSeq(Executable(steps), 1, Len(wfStarted))
    /\ Len(wfCodes) = IF wfPc = "command" THEN Len(wfStarted) - 1 ELSE Len(wfStarted)
    /\ \A i \in DOMAIN wfCodes : i < Len(wfStarted) => wfCodes[i] = 0
    /\ (\E i \in DOMAIN wfCodes : wfCodes[i] # 0) => wfPc = "exited" /\ wfExit = 1
    /\ wfPc = "exited" => wfExit = 1
    /\ wfPc = "completed" => wfStarted = Executable(steps) /\ wfExit = 0

Dispatches == rlSends' > rlSends
EntersProactiveWait == rlPc' = "waiting" /\ (rlPc # "waiting" \/ rlCalls' # rlCalls)
ReceivesResponse == rlPc = "inflight" /\ rlPc' # "inflight"

\* C33: a request is handed to fetch() only by rateLimitRequest at the end of
\* its proactive wait, first sending and resubmission after a 429 alike; the
\* wait is the proactive delay of the route category of the call, at least 50
\* ms; the state of that category is updated from the response in the step
\* that receives it, before the 409 and 429 branches and the return.
C33_EveryDispatchGoverned ==
    /\ [][Dispatches => /\ rlPc = "waiting" /\ rlPc' = "inflight"
                        /\ rlSends' = rlSends + 1
                        /\ now' >= rlWake
                        /\ rlSent' = rlReq]_vars
    /\ [][EntersProactiveWait =>
             /\ rlWake' - now' >= 50
             /\ \E j \in JitterValues :
                   rlWake' = now' + calculateProactiveDelay(rateLimitState, rlCat', now', j)
             /\ rlPc = "backoff" => rlCat' = rlCat /\ rlReq' = rlClone]_vars
    /\ [][ReceivesResponse =>
             /\ rateLimitState' = updateRateLimitState(rateLimitState, rlCat, rlRes', rlResAt')
             /\ rlCat \in DOMAIN rateLimitState']_vars
    /\ [](rlPc = "inflight" => rlSends = rlRetries + 1)

\* a request is sent again after a 429, its second proactive wait computed from
\* the state the 429 left for its category
C33_Witness ==
    /\ rlPc = "inflight" /\ rlRetries = 1 /\ rlSends = 2
    /\ rlCat \in DOMAIN rateLimitState
    /\ rlRes.status = 429

\* the lookup of the current flag is answered 200 in this step
LookupFindsFlag ==
    pc = "flagCheck" /\ lastRes'.kind = "flagCheck" /\ lastRes'.status = 200

\* C34: with no conflict prefix configured, a lookup answered 200 is followed
\* by the read of the destination flag under the same key, no creation POST is
\* dispatched for that flag, and its environment patches carry that key.
C34_FoundFlagIsUpdatedNotCreated ==
    /\ [][(LookupFindsFlag /\ conflictPrefix = "")
             => /\ pc' = "destFlag"
                /\ req'.key = req.key
                /\ req'.key = Key(flagList[flagIdx])
                /\ flagAlreadyExisted'
                /\ createKeys' = createKeys]_vars
    /\ [](flagAlreadyExisted =>
             /\ pc \in {"destFlag", "flagPatch", "approvalList", "approvalCreate"}
             /\ createKeys = <<>>
             /\ req.key = Key(flagList[flagIdx]))
    /\ []((pc = "flagCreate" /\ conflictPrefix = "")
             => [type |-> "flags", env |-> 0, key |-> req.key] \notin known)

\* an environment of a flag the lookup found is being patched
C34_Witness ==
    /\ pc = "flagPatch" /\ ~req.sim
    /\ flagAlreadyExisted /\ conflictPrefix = ""
    /\ lastRes.kind = "destFlag"

\* the requests that follow the creation of a resource, and what the
\* destination must have reported of the resource of such a request
FollowUps == {"segmentPatch", "destFlag", "flagPatch", "approvalList", "approvalCreate"}
ResourceOf(r) ==
    IF r.kind = "segmentPatch" THEN [type |-> "segments", env |-> r.env, key |-> r.key]
    ELSE [type |-> "flags", env |-> 0, key |-> r.key]
\* a creation POST is answered, in this step, by a status that is neither a
\* creation nor a conflict (a 429 is answered to rateLimitRequest, which sends
\* the request again)
CreationFails ==
    /\ pc \in {"segmentCreate", "flagCreate"}
    /\ lastRes'.kind = pc
    /\ lastRes'.status \notin {200, 201, 409, 429}

\* C35: when the creation of a flag or segment ends with a status other than
\* 200, 201 and 409, the run goes on with the next resource: no PATCH,
\* destination read or approval request follows, and every such request of a
\* run is for a resource whose creation was answered 200, 201 or 409 or whose
\* lookup was answered 200 in this run.
C35_NoFollowUpAfterFailedCreation ==
    /\ [][CreationFails =>
             /\ pc' \notin FollowUps
             /\ req'.kind \in CreateKinds =>
                    req'.key.base # req.key.base \/ req'.env # req.env]_vars
    /\ []((pc \in FollowUps /\ ~dryRun) => ResourceOf(req) \in known)

\* the run has gone on to the next segment after a creation answered 400
C35_Witness ==
    /\ lastRes.kind = "segmentCreate" /\ lastRes.status = 400
    /\ pc = "segmentCreate" /\ req.env = envkeys[Len(envkeys)]
    /\ [type |-> "segments", env |-> envkeys[1], key |-> lastRes.key] \in failures

\* the destination reported, in this run, a resource of the type of entry r
\* under its resolvedKey: created (200, 201) or existing (409, lookup 200)
ResolvedInDestination(r) ==
    \E k \in known :
        /\ k.key = r.resolvedKey
        /\ k.type = IF r.resourceType = "flag" THEN "flags" ELSE "segments"

\* C36 (as claimed): at the end of the run every entry of the conflict report
\* is for a resource that was created or found existing under the resolvedKey
\* of the entry.
C36_EntriesAreResolved ==
    (pc = "done" /\ ~dryRun) =>
        \A i \in DOMAIN resolutions : ResolvedInDestination(resolutions[i])

\* the run ends with an entry for a resource that it created under the
\* prefixed key
C36_Reached ==
    /\ pc = "done" /\ ~dryRun /\ resolutions # <<>>
    /\ \A i \in DOMAIN resolutions : ResolvedInDestination(resolutions[i])

\* the list of approval requests of the current flag environment is answered,
\* in this step, with no active request, and the conversion of its patch list
\* yields no instruction
ConvertsToNothing ==
    /\ pc = "approvalList"
    /\ [flag |-> req.key, env |-> req.env, step |-> "converted"] \in approvalEvents'
    /\ InstructionCount(BuildPatchReq(srcCfg, req.env)) = 0

\* C37: no approval request is submitted with an empty instruction list; when
\* the conversion of the patch list of a flag environment yields no
\* instruction, no approval-request POST follows and the flag is added neither
\* to the approval requests nor to the flags with errors.
C37_NoEmptyApprovalRequest ==
    /\ [](pc = "approvalCreate" => req.instructions > 0)
    /\ [][ConvertsToNothing =>
             /\ pc' # "approvalCreate"
             /\ approvalRequestsCreated' = approvalRequestsCreated
             /\ flagsWithErrors' = flagsWithErrors]_vars

\* the run has ended after a conversion that yielded no instruction
C37_Witness ==
    /\ pc = "done"
    /\ \E e \in approvalEvents :
          /\ e.step = "converted"
          /\ InstructionCount(BuildPatchReq(srcCfg, e.env)) = 0
    /\ approvalRequestsCreated = <<>> /\ flagsWithErrors = {}

\* C38: the maintainerId of every flag creation payload is null or the
\* destination member id of the maintainer mapping, the latter only when
\* maintainer assignment is enabled and the source maintainer has a mapping;
\* the maintainer id of the source flag is never sent.
C38_MaintainerNullOrMapped ==
    (req.kind = "flagCreate") =>
        /\ req.maintainerId \in {"none", DestinationMemberId}
        /\ req.maintainerId # SourceMaintainerId
        /\ req.maintainerId = DestinationMemberId =>
               assignMaintainerIds /\ maintainerMapped

\* a flag creation carrying the mapped maintainer has been answered
C38_Witness ==
    /\ lastRes.kind = "flagCreate" /\ lastRes.status = 201
    /\ assignMaintainerIds /\ maintainerMapped
    /\ flagMaintainerId = DestinationMemberId

\* a flag creation with assignment enabled and no mapping is in flight
C38_UnmappedWitness ==
    /\ req.kind = "flagCreate" /\ assignMaintainerIds /\ ~maintainerMapped
    /\ req.maintainerId = "none"
====
